---- MODULE Spec2Model ----
\* Paginated discovery, bounded parallel extraction and record normalisation
\* of the ORD scraper (ORD.py) and the KMT miner (CRD/CRD.py).
EXTENDS Integers, Sequences, FiniteSets, TLC

\* ------------------------------------------------------------------ bounds

\* Most links a listing page shows.
MaxLinks == 3
\* Largest total the "of N entries" label announces.
MaxTotal == 2
\* Largest max_reactions argument passed to the traversal.
MaxLimit == 1
\* Largest max_retries argument passed to scrape_reaction_data.
MaxAttempts == 3
\* Most references of one batch.
MaxBatch == 3
\* Largest max_workers argument of a batch.
MaxWorkers == 2
\* Most components of one parsed payload.
MaxComponents == 2
\* Largest integer role code a payload carries.
MaxRoleCode == 11
\* Most components of the first input of an ORD payload.
MaxOrdComponents == 1
\* Most concurrent calls of ProgressCounter.increment.
MaxCalls == 4
\* Most records one call of process_reaction_data collects.
MaxRecords == 2
\* The 'Details' links one listing page shows.
MaxItems == 2
\* The 'Next' elements one page shows.
MaxCandidates == 2
\* The datasets the browse listing shows.
MaxDatasets == 2

\* ------------------------------------------------------- program constants

\* def scrape_reaction_data(driver, reaction_id, max_retries=2)
DefaultMaxRetries == 2
\* reaction_order.get(x['reaction_id'], 999999)
MissingRank == 999999
\* if identifier.get("type") == 2:  # SMILES
SmilesType == 2
\* An identifier type that is not SMILES.
OtherType == SmilesType + 1

\* ------------------------------------------------------------ value domains

\* Python's None is the empty tuple, a present value v is <<v>>.
None == <<>>
Some(v) == <<v>>
\* Python truthiness of an optional integer: None and 0 are falsy.
Truthy(opt) == opt # None /\ opt[1] # 0

Range(s) == {s[i] : i \in 1..Len(s)}
NoDuplicates(s) == \A i, j \in 1..Len(s) : s[i] = s[j] => i = j
SeqsUpTo(S, n) == UNION {[1..k -> S] : k \in 0..n}

\* Identifiers a listing can show (the last path segment of a detail link).
Ids == {"A", "B", "C", "D"}
\* A link whose href is empty or whose attribute read raises.
BadHref == "BAD_HREF"
\* A link whose last path segment is not an identifier ('' or no 'ord-' prefix).
NotItem == "NOT_ITEM"
Links == Ids \cup {BadHref, NotItem}

\* --------------------------------------------------------------- variables

VARIABLES
    \* -- listing traversal (get_all_reaction_ids_from_dataset / get_all_dataset_ids)
    mode,           \* "reaction" or "dataset": which of the two loops runs
    tpc,            \* position: "open", "find", "scan", "check", "next", "returned", "raised"
    max_reactions,  \* the limit argument (None or Some(n))
    total_entries,  \* the total-count hint (None or Some(n))
    all_ids,        \* all_reaction_ids / all_dataset_ids
    page,           \* 1-based page index
    prev_count,     \* count after the previous page
    page_links,     \* the links of the current page the for loop has met
    clicks,         \* how often the 'next' control was activated
    stop_reason,    \* which exit of the loop was taken ("" while running)
    returned,       \* the returned list
    seen,           \* history: identifiers met so far
    precedes,       \* history: <<a, b>> when a was met before b was first met
    \* -- one call of scrape_reaction_data
    max_retries,    \* the max_retries argument
    fetch_plan,     \* what the k-th attempt on the detail page meets
    attempt,        \* the loop variable of range(max_retries)
    rpc,            \* position: "idle", "loop", "pause", "returned", "raised"
    attempts_made,  \* how many attempts were started
    pauses,         \* how many inter-attempt pauses were taken
    result,         \* the returned dictionary
    \* -- one batch (scrape_single_dataset_parallel)
    bpc,            \* position: "idle", "enter", "start", "submit", "collect", "returned",
                    \*   "raised"
    max_workers,    \* the max_workers argument
    reaction_ids,   \* what the traversal of the dataset returned
    submitted,      \* how many references were handed to executor.submit
    fut,            \* per reference, its future: "none", "queued", "running",
                    \*   "result", "exception", "collected"
    wstep,          \* per reference, the position of its worker in
                    \*   scrape_single_reaction_wrapper
    w_result,       \* per reference, the worker's result dictionary
    sessions,       \* references whose worker holds an open browser session
    completed,      \* progress_counter.completed
    total,          \* progress_counter.total
    reactions_data, \* the collected result dictionaries
    completion_order, \* history: the references in the order they were collected
    batch_return,   \* the returned summary dictionary
    \* -- one call of format_reaction_data (CRD)
    fpc,            \* position: "idle", "called", "returned", "again"
    parsed_data,    \* the parsed payload: chemicals and raw_smiles
    metadata,       \* Reaction_Data_Origin and details_url
    output,         \* the returned dictionary: key -> value
    \* -- one call of format_reaction_data (ORD)
    opc,            \* position: "idle", "called", "returned", "again", "raised"
    reaction_data,  \* the argument: a result dictionary of scrape_reaction_data
    formatted,      \* the returned dictionary (None before the call returns)
    \* -- browser sessions (get_driver / driver.quit)
    opens,          \* per owner, how often get_driver returned a session to it
    quits,          \* per owner, how often driver.quit() was called on its session
    \* -- concurrent calls of ProgressCounter.increment
    calls,          \* how many threads call increment
    lock,           \* self.lock: None, or the thread that holds it
    counter,        \* self.completed of the counter the calls share
    ipc,            \* per thread, its position in increment: "none", "call",
                    \*   "locked", "loaded", "stored", "returned"
    loaded,         \* per thread, the value its += read
    returns,        \* per thread, the value its call returned (None before)
    \* -- one call of process_reaction_data (CRD)
    ppc,            \* position: "idle", "load", "items", "next", "returned"
    current_url,    \* the listing page the while loop is on
    last_item,      \* the item the for loop over found_items handled last: its url
                    \*   and what the requests for it met (NoItem outside that loop)
    item_index,     \* how many items of the current page the for loop has handled
                    \*   (0 outside that loop)
    reaction_data_list, \* the records appended so far
    candidates,     \* the 'Next' elements found on the current page (<<>> until
                    \*   the search of the iteration has run)
    next_link,      \* the href the search chose (None until it has chosen one)
    process_return, \* the returned list (None before the return)
    \* -- scrape_all_datasets_sequential
    qpc,            \* position: "idle", "start", "loop", "returned", "raised"
    max_datasets,   \* the limit on the datasets (None or a number)
    discovered,     \* what get_all_dataset_ids returned
    dataset_ids,    \* the selected datasets: the list the for loop runs over
    dataset_index,  \* the number of iterations of the for loop that are over
    attempted,      \* the datasets scrape_single_dataset_parallel was called for
    all_results,    \* the entries appended so far
    run_return,     \* the returned list (None before the return)
    \* -- main
    mpc,            \* position: "idle", "formatted", "done", "raised"
    formatted_results,  \* the dictionary main builds, by dataset_id
    main_error      \* what main raised: "", "run", "KeyError", "io"

tvars == <<mode, tpc, max_reactions, total_entries, all_ids, page, prev_count,
           page_links, clicks, stop_reason, returned, seen, precedes>>

rvars == <<max_retries, fetch_plan, attempt, rpc, attempts_made, pauses, result>>

bvars == <<bpc, max_workers, reaction_ids, submitted, fut, wstep, w_result, sessions,
           completed, total, reactions_data, completion_order, batch_return>>

fvars == <<fpc, parsed_data, metadata, output>>

ovars == <<opc, reaction_data, formatted>>

\* The sessions are acquired and released by the traversal and by the batch.
svars == <<opens, quits>>

cvars == <<calls, lock, counter, ipc, loaded, returns>>

pvars == <<ppc, current_url, last_item, item_index, reaction_data_list, candidates,
           next_link, process_return>>

qvars == <<qpc, max_datasets, discovered, dataset_ids, dataset_index, attempted, all_results, run_return>>

mvars == <<mpc, formatted_results, main_error>>

vars == <<tvars, rvars, bvars, fvars, ovars, svars, cvars, pvars, qvars, mvars>>

nonTvars == <<rvars, bvars, fvars, ovars, cvars, pvars, qvars, mvars>>
nonRvars == <<tvars, bvars, fvars, ovars, svars, cvars, pvars, qvars, mvars>>
nonBvars == <<tvars, rvars, fvars, ovars, cvars, pvars, qvars, mvars>>
nonFvars == <<tvars, rvars, bvars, ovars, svars, cvars, pvars, qvars, mvars>>
nonOvars == <<tvars, rvars, bvars, fvars, svars, cvars, pvars, qvars, mvars>>
nonCvars == <<tvars, rvars, bvars, fvars, ovars, svars, pvars, qvars, mvars>>
nonPvars == <<tvars, rvars, bvars, fvars, ovars, svars, cvars, qvars, mvars>>
nonQvars == <<tvars, rvars, bvars, fvars, ovars, svars, cvars, pvars, mvars>>
nonMvars == <<tvars, rvars, bvars, fvars, ovars, svars, cvars, pvars, qvars>>

\* The traversal is not running.
TIdle ==
    /\ mode = "reaction"
    /\ tpc = "idle"
    /\ max_reactions = None
    /\ total_entries = None
    /\ all_ids = <<>>
    /\ page = 1
    /\ prev_count = 0
    /\ page_links = <<>>
    /\ clicks = 0
    /\ stop_reason = ""
    /\ returned = <<>>
    /\ seen = {}
    /\ precedes = {}

\* No dictionary yet.
NoResult == [pending |-> TRUE]

\* The references of the largest batch, in discovery order. Identifiers are
\* opaque to the batch, so one list stands for each batch size.
Discovered == <<"C", "A", "D", "B">>
\* References a batch can be made of.
BatchIds == Range(Discovered)

\* A sub-element of a molecule: absent, present without text, or its text.
Absent == "(no element)"
EmptyElement == "(element without text)"
\* What node.text is for an element without text: Python's None.
NoText == "(None)"
\* The text an export link returns when it is not XML.
NotXml == [wellformed |-> FALSE, smiles |-> Absent, molecules |-> <<>>]

\* What the requests for one item met: a failure before any document, or
\* ("document") the text of the export link.
Met(kind, doc) == [met |-> kind, doc |-> doc]
\* The for loop of process_reaction_data has met no item yet.
NoItem == [url |-> "", outcome |-> Met("none", NotXml)]

\* The threads that can call increment.
Threads == 1..MaxCalls

\* Who holds a browser session: the worker of a reference, the batch itself
\* (scrape_single_dataset_parallel), or get_all_dataset_ids.
Owners == BatchIds \cup {"batch", "traversal"}

\* No session was acquired.
SIdle ==
    /\ opens = [o \in Owners |-> 0]
    /\ quits = [o \in Owners |-> 0]

\* A release that only the normal return performs.
QuitOnReturnOnly(q, owner, exit) ==
    IF exit = "returned" THEN [q EXCEPT ![owner] = @ + 1] ELSE q

\* finally: driver.quit() -- runs however the try block is left, by a
\* return ("returned") or by an exception ("raised").
QuitInFinally(q, owner, exit) == [q EXCEPT ![owner] = @ + 1]

\* No batch is running.
BIdle ==
    /\ bpc = "idle"
    /\ max_workers = 0
    /\ reaction_ids = <<>>
    /\ submitted = 0
    /\ fut = [r \in BatchIds |-> "none"]
    /\ wstep = [r \in BatchIds |-> "none"]
    /\ w_result = [r \in BatchIds |-> NoResult]
    /\ sessions = {}
    /\ completed = 0
    /\ total = 0
    /\ reactions_data = <<>>
    /\ completion_order = <<>>
    /\ batch_return = NoResult

\* format_reaction_data is not running.
FIdle ==
    /\ fpc = "idle"
    /\ parsed_data = [chemicals |-> <<>>, raw_smiles |-> ""]
    /\ metadata = [Reaction_Data_Origin |-> "", details_url |-> ""]
    /\ output = <<>>

\* The ORD format_reaction_data is not running.
OIdle ==
    /\ opc = "idle"
    /\ reaction_data = NoResult
    /\ formatted = None

\* No thread is in ProgressCounter.increment.
CIdle ==
    /\ calls = 0
    /\ lock = None
    /\ counter = 0
    /\ ipc = [t \in Threads |-> "none"]
    /\ loaded = [t \in Threads |-> 0]
    /\ returns = [t \in Threads |-> None]

\* process_reaction_data is not running.
PIdle ==
    /\ ppc = "idle"
    /\ current_url = ""
    /\ last_item = NoItem
    /\ item_index = 0
    /\ reaction_data_list = <<>>
    /\ candidates = <<>>
    /\ next_link = None
    /\ process_return = None

\* scrape_all_datasets_sequential is not running.
QIdle ==
    /\ qpc = "idle"
    /\ max_datasets = None
    /\ discovered = <<>>
    /\ dataset_ids = <<>>
    /\ dataset_index = 0
    /\ attempted = <<>>
    /\ all_results = <<>>
    /\ run_return = None

\* main has not got past its call of scrape_all_datasets_sequential.
MIdle ==
    /\ mpc = "idle"
    /\ formatted_results = <<>>
    /\ main_error = ""

\* scrape_reaction_data is not running.
RIdle ==
    /\ max_retries = 0
    /\ fetch_plan = <<>>
    /\ attempt = 0
    /\ rpc = "idle"
    /\ attempts_made = 0
    /\ pauses = 0
    /\ result = NoResult

\* ------------------------------------------------------ listing traversal

\* href.split('/')[-1] and the acceptance test of the identifier: the
\* identifier to add, or None when the link is skipped.
ExtractId(link) ==
    IF link = BadHref THEN None
    ELSE IF link = NotItem THEN None
    ELSE Some(link)

\* A buggy variant: appends without the membership test.
AddIdNoDedup(ids, rid) == Append(ids, rid)

\* A buggy variant: puts a new identifier in front.
AddIdFront(ids, rid) == IF rid \notin Range(ids) THEN <<rid>> \o ids ELSE ids

\* if reaction_id not in all_reaction_ids: all_reaction_ids.append(reaction_id)
AddId(ids, rid) == IF rid \notin Range(ids) THEN Append(ids, rid) ELSE ids

\* A buggy variant: the limit counts only once it is exceeded.
LimitReachedLate(limit, ids) == Truthy(limit) /\ Len(ids) > limit[1]

\* if max_reactions and len(all_reaction_ids) >= max_reactions
LimitReached(limit, ids) == Truthy(limit) /\ Len(ids) >= limit[1]

\* A buggy variant: no stuck check.
StopCheckNoStuck(hint, current_count, prev) ==
    IF Truthy(hint) /\ current_count >= hint[1] THEN "complete" ELSE "continue"

\* A buggy variant: stuck only when the count went down.
StopCheckOnDecrease(hint, current_count, prev) ==
    IF Truthy(hint) /\ current_count >= hint[1] THEN "complete"
    ELSE IF current_count < prev THEN "stuck"
    ELSE "continue"

\* The two checks after a page was scanned, in the code's order.
StopCheck(hint, current_count, prev) ==
    IF Truthy(hint) /\ current_count >= hint[1] THEN "complete"
    ELSE IF current_count = prev THEN "stuck"
    ELSE "continue"

\* break out of the loop, then return the list.
Stop(reason) ==
    /\ stop_reason' = reason
    /\ returned' = all_ids
    /\ tpc' = "returned"

\* The finally clause of get_all_dataset_ids, whose try block holds the whole
\* traversal; get_all_reaction_ids_from_dataset works on its caller's session.
TraversalFinally ==
    quits' = IF mode = "dataset" /\ tpc' \in {"returned", "raised"}
             THEN QuitInFinally(quits, "traversal", tpc')
             ELSE quits

\* The traversal is entered; get_all_dataset_ids has acquired its session
\* (driver = get_driver() precedes its try block).
TInit ==
    /\ mode \in {"reaction", "dataset"}
    /\ tpc = "open"
    /\ max_reactions \in IF mode = "reaction"
                         THEN {None} \cup {Some(n) : n \in 0..MaxLimit}
                         ELSE {None}
    /\ total_entries = None
    /\ all_ids = <<>>
    /\ page = 1
    /\ prev_count = 0
    /\ page_links = <<>>
    /\ clicks = 0
    /\ stop_reason = ""
    /\ returned = <<>>
    /\ seen = {}
    /\ precedes = {}
    /\ RIdle
    /\ BIdle
    /\ FIdle
    /\ OIdle
    /\ opens = [o \in Owners |-> IF o = "traversal" /\ mode = "dataset" THEN 1 ELSE 0]
    /\ quits = [o \in Owners |-> 0]
    /\ CIdle
    /\ PIdle
    /\ QIdle
    /\ MIdle

\* driver.get, the wait for the body, set_pagination_size, get_total_entries.
OpenListing ==
    /\ tpc = "open"
    /\ \E t \in {None} \cup {Some(n) : n \in 0..MaxTotal} : total_entries' = t
    /\ tpc' = "find"
    /\ UNCHANGED <<mode, max_reactions, all_ids, page, prev_count, page_links,
                   clicks, stop_reason, returned, seen, precedes>>
    /\ TraversalFinally
    /\ UNCHANGED opens
    /\ UNCHANGED nonTvars

\* driver.get or the wait raises before the loop: the reaction traversal
\* returns [], the dataset traversal lets the exception through.
OpenFails ==
    /\ tpc = "open"
    /\ IF mode = "reaction"
       THEN /\ tpc' = "returned"
            /\ returned' = <<>>
            /\ stop_reason' = "error"
       ELSE /\ tpc' = "raised"
            /\ stop_reason' = "error"
            /\ UNCHANGED returned
    /\ UNCHANGED <<mode, max_reactions, total_entries, all_ids, page, prev_count,
                   page_links, clicks, seen, precedes>>
    /\ TraversalFinally
    /\ UNCHANGED opens
    /\ UNCHANGED nonTvars

\* find_elements for the item links of the current page, and the empty test.
\* The links of a non-empty page are met one at a time by ScanLink.
FindLinks ==
    /\ tpc = "find"
    /\ page_links' = <<>>
    /\ \E empty \in BOOLEAN :
        IF empty
        THEN Stop("empty")
        ELSE /\ tpc' = "scan"
             /\ UNCHANGED <<stop_reason, returned>>
    /\ UNCHANGED <<mode, max_reactions, total_entries, all_ids, page, prev_count,
                   clicks, seen, precedes>>
    /\ TraversalFinally
    /\ UNCHANGED opens
    /\ UNCHANGED nonTvars

\* find_elements raises: the loop is left with what was collected.
FindFails ==
    /\ tpc = "find"
    /\ Stop("find_error")
    /\ UNCHANGED <<mode, max_reactions, total_entries, all_ids, page, prev_count,
                   page_links, clicks, seen, precedes>>
    /\ TraversalFinally
    /\ UNCHANGED opens
    /\ UNCHANGED nonTvars

\* One iteration of the for loop over the links of the page: link is the
\* next link of the page, last tells whether the page ends with it.
ScanLink ==
    /\ tpc = "scan"
    /\ Len(page_links) < MaxLinks
    /\ \E link \in Links, last \in BOOLEAN :
        LET rid == ExtractId(link)
            ids == IF rid = None THEN all_ids ELSE AddId(all_ids, rid[1])
            added == rid # None /\ rid[1] \notin Range(all_ids)
        IN /\ (Len(page_links) + 1 = MaxLinks) => last
           /\ page_links' = Append(page_links, link)
           /\ all_ids' = ids
           /\ seen' = IF rid = None THEN seen ELSE seen \cup {rid[1]}
           /\ precedes' = IF rid = None \/ rid[1] \in seen THEN precedes
                          ELSE precedes \cup {<<a, rid[1]>> : a \in seen}
           /\ IF added /\ LimitReached(max_reactions, ids)
              THEN /\ stop_reason' = "limit"
                   /\ returned' = SubSeq(ids, 1, max_reactions[1])
                   /\ tpc' = "returned"
              ELSE /\ tpc' = IF last THEN "check" ELSE "scan"
                   /\ UNCHANGED <<stop_reason, returned>>
    /\ UNCHANGED <<mode, max_reactions, total_entries, page, prev_count, clicks>>
    /\ TraversalFinally
    /\ UNCHANGED opens
    /\ UNCHANGED nonTvars

\* current_count and the completion and stuck checks, once the for loop
\* is over (the list of the page is not read again).
CheckPage ==
    /\ tpc = "check"
    /\ page_links' = <<>>
    /\ LET verdict == StopCheck(total_entries, Len(all_ids), prev_count)
       IN IF verdict = "continue"
          THEN /\ prev_count' = Len(all_ids)
               /\ tpc' = "next"
               /\ UNCHANGED <<stop_reason, returned>>
          ELSE Stop(verdict) /\ UNCHANGED prev_count
    /\ UNCHANGED <<mode, max_reactions, total_entries, all_ids, page, clicks,
                   seen, precedes>>
    /\ TraversalFinally
    /\ UNCHANGED opens
    /\ UNCHANGED nonTvars

\* An enabled, displayed 'Next' element is found and clicked.
ClickNext ==
    /\ tpc = "next"
    /\ clicks' = clicks + 1
    /\ page' = page + 1
    /\ tpc' = "find"
    /\ UNCHANGED <<mode, max_reactions, total_entries, all_ids, prev_count,
                   page_links, stop_reason, returned, seen, precedes>>
    /\ TraversalFinally
    /\ UNCHANGED opens
    /\ UNCHANGED nonTvars

\* No candidate is actionable (or the search raises): the loop ends.
NoNext ==
    /\ tpc = "next"
    /\ Stop("no_next")
    /\ UNCHANGED <<mode, max_reactions, total_entries, all_ids, page, prev_count,
                   page_links, clicks, seen, precedes>>
    /\ TraversalFinally
    /\ UNCHANGED opens
    /\ UNCHANGED nonTvars

TNext ==
    \/ OpenListing
    \/ OpenFails
    \/ FindLinks
    \/ FindFails
    \/ ScanLink
    \/ CheckPage
    \/ ClickNext
    \/ NoNext

SpecTraversal == TInit /\ [][TNext]_vars

\* The traversal is one sequential function: as long as a statement of it can
\* run, one does.
SpecTraversalFair == SpecTraversal /\ WF_vars(TNext)

\* ------------------------------------------------- scrape_reaction_data

\* What one attempt on a detail page can meet: the payload is read and
\* parsed, or the attempt raises at one of its steps.
AttemptFailures == {"navigation_error", "wait_timeout", "no_full_record_button",
                    "invalid_json_text", "json_decode_error"}
AttemptOutcomes == {"ok"} \cup AttemptFailures

\* The identifier the call is made for.
TheReaction == "A"

\* return {'reaction_id': ..., 'data': reaction_data, 'success': True}
SuccessResult(rid) == [reaction_id |-> rid, data |-> Some("payload"), success |-> TRUE]

\* A failure result that gives no reason.
FailureResultNoError(rid) == [reaction_id |-> rid, data |-> None, success |-> FALSE]

\* return {'reaction_id': ..., 'data': None, 'success': False, 'error': ...}
FailureResult(rid) ==
    [reaction_id |-> rid, data |-> None, success |-> FALSE,
     error |-> "Max retries exceeded"]

\* An entry that reports the raised task as a success.
ExceptionResultAsSuccess(rid) ==
    [reaction_id |-> rid, success |-> TRUE, error |-> "exception text"]

\* {'reaction_id': rid, 'success': False, 'error': str(e)}
ExceptionResult(rid) == [reaction_id |-> rid, success |-> FALSE, error |-> "exception text"]

\* A buggy variant: one attempt too many.
InRangeOneMore(i, n) == i <= n

\* A buggy variant: one attempt too few.
InRangeOneLess(i, n) == i < n - 1

\* for attempt in range(max_retries): the loop body runs for this value.
InRange(i, n) == i < n

\* A buggy variant: the pause follows every failed attempt, the last included.
PauseAfterEveryFailure(i, n) == i < n

\* if attempt < max_retries - 1: time.sleep(1)
PauseBeforeRetry(i, n) == i < n - 1

RInit ==
    /\ max_retries \in 0..MaxAttempts
    /\ fetch_plan \in [1..(MaxAttempts + 1) -> AttemptOutcomes]
    /\ attempt = 0
    /\ rpc = "loop"
    /\ attempts_made = 0
    /\ pauses = 0
    /\ result = NoResult
    /\ TIdle
    /\ BIdle
    /\ FIdle
    /\ OIdle
    /\ SIdle
    /\ CIdle
    /\ PIdle
    /\ QIdle
    /\ MIdle

\* One pass through the try block, and the return it ends with.
AttemptSucceeds ==
    /\ rpc = "loop"
    /\ InRange(attempt, max_retries)
    /\ fetch_plan[attempt + 1] = "ok"
    /\ attempts_made' = attempts_made + 1
    /\ result' = SuccessResult(TheReaction)
    /\ rpc' = "returned"
    /\ UNCHANGED <<max_retries, fetch_plan, attempt, pauses>>
    /\ UNCHANGED nonRvars

\* An except clause for the wait's timeout only.
CaughtTimeoutOnly(failure) == failure = "wait_timeout"

\* except: -- the bare clause of the attempt catches whatever the try block raises.
Caught(failure) == TRUE

\* One pass through the try block that raises, and the bare except.
AttemptFails ==
    /\ rpc = "loop"
    /\ InRange(attempt, max_retries)
    /\ fetch_plan[attempt + 1] \in AttemptFailures
    /\ attempts_made' = attempts_made + 1
    /\ IF ~Caught(fetch_plan[attempt + 1])
       THEN rpc' = "raised" /\ UNCHANGED attempt
       ELSE IF PauseBeforeRetry(attempt, max_retries)
       THEN rpc' = "pause" /\ UNCHANGED attempt
       ELSE rpc' = "loop" /\ attempt' = attempt + 1
    /\ UNCHANGED <<max_retries, fetch_plan, pauses, result>>
    /\ UNCHANGED nonRvars

\* time.sleep(1); continue
Pause ==
    /\ rpc = "pause"
    /\ pauses' = pauses + 1
    /\ attempt' = attempt + 1
    /\ rpc' = "loop"
    /\ UNCHANGED <<max_retries, fetch_plan, attempts_made, result>>
    /\ UNCHANGED nonRvars

\* The loop is exhausted: the failure dictionary is returned.
RetriesExhausted ==
    /\ rpc = "loop"
    /\ ~InRange(attempt, max_retries)
    /\ result' = FailureResult(TheReaction)
    /\ rpc' = "returned"
    /\ UNCHANGED <<max_retries, fetch_plan, attempt, attempts_made, pauses>>
    /\ UNCHANGED nonRvars

RNext ==
    \/ AttemptSucceeds
    \/ AttemptFails
    \/ Pause
    \/ RetriesExhausted

SpecRetry == RInit /\ [][RNext]_vars

\* ------------------------------------------- record normalisation (ORD)

\* Role codes a payload carries: component.get("reactionRole") is an integer,
\* a string, or missing (None).
IntCode(n) == [kind |-> "int", n |-> n, s |-> ""]
StrCode(str) == [kind |-> "str", n |-> 0, s |-> str]
NoCode == [kind |-> "none", n |-> 0, s |-> ""]
RoleCodes == {IntCode(n) : n \in -1..MaxRoleCode} \cup {StrCode("REACTANT"), NoCode}

\* f"{role_code}"
CodeText(role_code) ==
    CASE role_code.kind = "int" -> ToString(role_code.n)
      [] role_code.kind = "str" -> role_code.s
      [] role_code.kind = "none" -> "None"

\* The roles dictionary of get_reaction_role_name.
RolesDict ==
    (0 :> "UNSPECIFIED") @@ (1 :> "REACTANT") @@ (2 :> "REAGENT") @@ (3 :> "SOLVENT")
    @@ (4 :> "CATALYST") @@ (5 :> "WORKUP") @@ (6 :> "INTERNAL_STANDARD")
    @@ (7 :> "AUTHENTIC_STANDARD") @@ (8 :> "PRODUCT") @@ (9 :> "BYPRODUCT")
    @@ (10 :> "SIDE_PRODUCT")

\* A lookup whose default drops the code.
GetReactionRoleNameBareDefault(role_code) ==
    IF role_code.kind = "int" /\ role_code.n \in DOMAIN RolesDict
    THEN RolesDict[role_code.n]
    ELSE "UNKNOWN"

\* roles.get(role_code, f"UNKNOWN_{role_code}")
GetReactionRoleName(role_code) ==
    IF role_code.kind = "int" /\ role_code.n \in DOMAIN RolesDict
    THEN RolesDict[role_code.n]
    ELSE "UNKNOWN_" \o CodeText(role_code)

\* Identifier lists of a component or product: none, or a name and a SMILES.
IdentifierLists ==
    {<<>>, <<[type |-> OtherType, value |-> "ethanol"], [type |-> SmilesType, value |-> "CCO"]>>}
PayloadComponents == [identifiersList : IdentifierLists, reactionRole : RoleCodes]

\* One entry of inputsMap: [tab_name, input_data].
InputEntry(tab_name, components) == <<tab_name, [componentsList |-> components]>>
SecondEntry ==
    InputEntry("m2", <<[identifiersList |-> <<>>, reactionRole |-> IntCode(1)]>>)
\* data["inputsMap"] with one or two entries, the first of up to n components.
FilledInputsMaps(n) ==
    {Some(<<InputEntry("m1", cs)>>) : cs \in SeqsUpTo(PayloadComponents, n)}
    \cup {Some(<<InputEntry("m1", cs), SecondEntry>>) : cs \in SeqsUpTo(PayloadComponents, n)}
\* data["inputsMap"] without any component: the key is missing, the list is
\* empty, or its only entry has no component.
EmptyInputsMaps == {None, Some(<<>>), Some(<<InputEntry("m1", <<>>)>>)}

TheProduct ==
    [identifiersList |-> <<[type |-> SmilesType, value |-> "CC=O"]>>, isDesiredProduct |-> TRUE]
\* reactionId and outcomesList of a payload: both keys missing, or an
\* identifier with no outcome, with an outcome that has no product, or with
\* such an outcome followed by one with a product.
EmptyFrames ==
    {[reactionId |-> None, outcomesList |-> None],
     [reactionId |-> Some("ord-A"), outcomesList |-> Some(<<>>)],
     [reactionId |-> Some("ord-A"), outcomesList |-> Some(<<[productsList |-> <<>>]>>)]}
FilledFrame ==
    [reactionId |-> Some("ord-A"),
     outcomesList |-> Some(<<[productsList |-> <<>>], [productsList |-> <<TheProduct>>]>>)]

\* A payload whose inputsMap is a JSON object instead of a list of pairs.
MappingPayload ==
    [shape |-> "mapping", reactionId |-> None, inputsMap |-> Some(<<>>), outcomesList |-> None]
Payload(frame, inputs) ==
    [shape |-> "pairs", reactionId |-> frame.reactionId, inputsMap |-> inputs,
     outcomesList |-> frame.outcomesList]
Payloads(n) ==
    {Payload(FilledFrame, m) : m \in FilledInputsMaps(n) \cup EmptyInputsMaps}
    \cup {Payload(f, m) : f \in EmptyFrames, m \in EmptyInputsMaps}
    \cup {MappingPayload}

\* Arguments of format_reaction_data: a successful result with its payload, a
\* failure result (data is None), or a dictionary without 'data'.
OrdArguments(n) ==
    {[reaction_id |-> TheReaction, data |-> Some(p), success |-> TRUE] : p \in Payloads(n)}
    \cup {FailureResult(TheReaction), ExceptionResult(TheReaction)}

\* The identifiers of type 2, relabelled.
FormatIdentifiers(list) ==
    LET IsSmiles(identifier) == identifier.type = SmilesType
        kept == SelectSeq(list, IsSmiles)
    IN [k \in 1..Len(kept) |-> [type |-> "SMILES", value |-> kept[k].value]]

FormatComponent(component) ==
    [identifiers |-> FormatIdentifiers(component.identifiersList),
     reaction_role |-> GetReactionRoleName(component.reactionRole)]

FormatEntry(input_entry) ==
    <<input_entry[1],
      [components |-> [k \in 1..Len(input_entry[2].componentsList) |->
                          FormatComponent(input_entry[2].componentsList[k])]]>>

FormatProduct(product) ==
    [identifiers |-> FormatIdentifiers(product.identifiersList),
     reaction_role |-> "PRODUCT",
     is_desired_product |-> product.isDesiredProduct]

\* formatted['outcomes']: the products of all outcomes, flattened.
FormatOutcomes(outcomes) ==
    LET products[n \in 0..Len(outcomes)] ==
            IF n = 0 THEN <<>>
            ELSE products[n - 1] \o
                 [k \in 1..Len(outcomes[n].productsList) |->
                     FormatProduct(outcomes[n].productsList[k])]
    IN products[Len(outcomes)]

\* The call raises: data is None (data.get), or an entry of inputsMap is not a pair.
OrdFormatRaises(rd) ==
    /\ "data" \in DOMAIN rd
    /\ IF rd.data = None THEN TRUE ELSE rd.data[1].shape = "mapping"

\* format_reaction_data(reaction_data), for arguments on which it returns.
OrdFormatReactionData(rd) ==
    IF "data" \notin DOMAIN rd THEN None
    ELSE LET data == rd.data[1]
         IN Some([reaction_id |-> data.reactionId,
                  success |-> rd.success,
                  inputsMap |-> IF data.inputsMap = None THEN <<>>
                                ELSE [k \in 1..Len(data.inputsMap[1]) |->
                                         FormatEntry(data.inputsMap[1][k])],
                  outcomes |-> IF data.outcomesList = None THEN <<>>
                               ELSE FormatOutcomes(data.outcomesList[1])])

OInit ==
    /\ opc = "called"
    /\ reaction_data \in OrdArguments(MaxOrdComponents)
    /\ formatted = None
    /\ TIdle
    /\ RIdle
    /\ BIdle
    /\ FIdle
    /\ SIdle
    /\ CIdle
    /\ PIdle
    /\ QIdle
    /\ MIdle

\* The call returns.
OrdFormat ==
    /\ opc = "called"
    /\ ~OrdFormatRaises(reaction_data)
    /\ formatted' = OrdFormatReactionData(reaction_data)
    /\ opc' = "returned"
    /\ UNCHANGED reaction_data
    /\ UNCHANGED nonOvars

\* The call raises.
OrdFormatFails ==
    /\ opc = "called"
    /\ OrdFormatRaises(reaction_data)
    /\ opc' = "raised"
    /\ UNCHANGED <<reaction_data, formatted>>
    /\ UNCHANGED nonOvars

\* A second call on the same argument.
OrdFormatAgain ==
    /\ opc = "returned"
    /\ formatted' = OrdFormatReactionData(reaction_data)
    /\ opc' = "again"
    /\ UNCHANGED reaction_data
    /\ UNCHANGED nonOvars

ONext ==
    \/ OrdFormat
    \/ OrdFormatFails
    \/ OrdFormatAgain

SpecOrdFormat == OInit /\ [][ONext]_vars

\* ------------------------------------- scrape_single_dataset_parallel

\* The lists the traversal can return, one of each length: no identifier twice.
DiscoveredLists == {SubSeq(Discovered, 1, n) : n \in 0..MaxBatch}

\* result['formatted_data'] = format_reaction_data(result)
WithFormatted(res) ==
    [reaction_id |-> res.reaction_id, data |-> res.data, success |-> res.success,
     formatted_data |-> OrdFormatReactionData(res)]

\* Payloads a detail page of the batch holds: one with a component and a
\* product, one with no component and no product, and a malformed one.
FilledPayload ==
    Payload(FilledFrame,
            Some(<<InputEntry("m1", <<[identifiersList |-> <<>>, reactionRole |-> IntCode(1)]>>)>>))
EmptyPayload == Payload([reactionId |-> Some("ord-A"), outcomesList |-> Some(<<>>)], Some(<<>>))
WorkerPayloads == {FilledPayload, EmptyPayload, MappingPayload}

\* The success result of scrape_reaction_data with the payload it read.
SuccessWith(rid, payload) == [SuccessResult(rid) EXCEPT !.data = Some(payload)]

\* The summary returned when the traversal found nothing.
EmptySummary ==
    [dataset_id |-> "dataset", reactions |-> <<>>, total_reactions |-> 0,
     successful_scrapes |-> 0, error |-> "No reactions found"]

\* A count that takes every result for a success.
SuccessfulCountsAll(data) == Len(data)

\* successful = sum(1 for r in reactions_data if r['success'])
Successful(data) == Cardinality({i \in 1..Len(data) : data[i].success})

\* The summary returned after a batch.
Summary(data) ==
    [dataset_id |-> "dataset", reactions |-> data, total_reactions |-> Len(data),
     successful_scrapes |-> Successful(data)]

\* reaction_order = {rid: i for i, rid in enumerate(reaction_ids)} and
\* reaction_order.get(rid, 999999): a later entry of the comprehension
\* overwrites an earlier one.
ReactionOrder(ids, rid) ==
    IF rid \in Range(ids)
    THEN (CHOOSE i \in 1..Len(ids) :
              ids[i] = rid /\ \A j \in 1..Len(ids) : ids[j] = rid => j <= i) - 1
    ELSE MissingRank

\* x goes behind every element whose key is not larger (the sort is stable).
InsertByKey(sorted, x, ids) ==
    LET p == Cardinality({i \in 1..Len(sorted) :
                 ReactionOrder(ids, sorted[i].reaction_id)
                     <= ReactionOrder(ids, x.reaction_id)})
    IN SubSeq(sorted, 1, p) \o <<x>> \o SubSeq(sorted, p + 1, Len(sorted))

\* A buggy variant: the list is left in completion order.
SortSkipped(data, ids) == data

\* reactions_data.sort(key=lambda x: reaction_order.get(x['reaction_id'], 999999))
SortByOrder(data, ids) ==
    LET sortedPrefix[n \in 0..Len(data)] ==
            IF n = 0 THEN <<>> ELSE InsertByKey(sortedPrefix[n - 1], data[n], ids)
    IN sortedPrefix[Len(data)]

\* A buggy variant: a task that raised leaves no entry.
AppendCollectedDropsRaised(data, state, res, rid) ==
    IF state = "result" THEN Append(data, res) ELSE data

\* try: reactions_data.append(future.result())
\* except Exception as e: reactions_data.append({... 'error': str(e)})
AppendCollected(data, state, res, rid) ==
    IF state = "result" THEN Append(data, res) ELSE Append(data, ExceptionResult(rid))

\* The tasks a pool thread is executing.
Running == {r \in BatchIds : fut[r] = "running"}

\* A buggy variant: a thread per submitted task.
PoolHasFreeWorkerUnbounded(busy, bound) == TRUE

\* ThreadPoolExecutor(max_workers=max_workers): a task leaves the queue only
\* while fewer than max_workers threads are busy.
PoolHasFreeWorker(busy, bound) == busy < bound

\* The queued task that was submitted first.
FirstQueued(r) ==
    \E i \in 1..Len(reaction_ids) :
        /\ reaction_ids[i] = r
        /\ fut[r] = "queued"
        /\ \A j \in 1..(i - 1) : fut[reaction_ids[j]] # "queued"

BInit ==
    /\ bpc = "enter"
    /\ max_workers \in 1..MaxWorkers
    /\ reaction_ids = <<>>
    /\ submitted = 0
    /\ fut = [r \in BatchIds |-> "none"]
    /\ wstep = [r \in BatchIds |-> "none"]
    /\ w_result = [r \in BatchIds |-> NoResult]
    /\ sessions = {}
    /\ completed = 0
    /\ total = 0
    /\ reactions_data = <<>>
    /\ completion_order = <<>>
    /\ batch_return = NoResult
    /\ TIdle
    /\ RIdle
    /\ FIdle
    /\ OIdle
    /\ SIdle
    /\ CIdle
    /\ PIdle
    /\ QIdle
    /\ MIdle

\* driver = get_driver()
BatchGetDriver ==
    /\ bpc = "enter"
    /\ opens' = [opens EXCEPT !["batch"] = @ + 1]
    /\ bpc' = "start"
    /\ UNCHANGED <<max_workers, reaction_ids, submitted, fut, wstep, w_result, sessions,
                   completed, total, reactions_data, completion_order, batch_return>>
    /\ UNCHANGED quits
    /\ UNCHANGED nonBvars

\* get_driver() raises: the call ends with the exception, before its try block.
BatchGetDriverFails ==
    /\ bpc = "enter"
    /\ bpc' = "raised"
    /\ UNCHANGED <<max_workers, reaction_ids, submitted, fut, wstep, w_result, sessions,
                   completed, total, reactions_data, completion_order, batch_return>>
    /\ UNCHANGED <<opens, quits>>
    /\ UNCHANGED nonBvars

\* The traversal returns the references; an empty list ends the call (finally
\* quits the session), else the progress counter is set up.
BeginBatch ==
    /\ bpc = "start"
    /\ \E ids \in DiscoveredLists :
        /\ reaction_ids' = ids
        /\ IF ids = <<>>
           THEN /\ batch_return' = EmptySummary
                /\ bpc' = "returned"
                /\ UNCHANGED total
           ELSE /\ total' = Len(ids)
                /\ bpc' = "submit"
                /\ UNCHANGED batch_return
    /\ UNCHANGED <<max_workers, submitted, fut, wstep, w_result, sessions, completed,
                   reactions_data, completion_order>>
    /\ quits' = IF bpc' = "returned" THEN QuitInFinally(quits, "batch", "returned") ELSE quits
    /\ UNCHANGED opens
    /\ UNCHANGED nonBvars

\* executor.submit for the next reference of the comprehension.
Submit ==
    /\ bpc = "submit"
    /\ submitted < Len(reaction_ids)
    /\ fut' = [fut EXCEPT ![reaction_ids[submitted + 1]] = "queued"]
    /\ submitted' = submitted + 1
    /\ bpc' = IF submitted + 1 = Len(reaction_ids) THEN "collect" ELSE "submit"
    /\ UNCHANGED <<max_workers, reaction_ids, wstep, w_result, sessions, completed,
                   total, reactions_data, completion_order, batch_return>>
    /\ UNCHANGED <<opens, quits>>
    /\ UNCHANGED nonBvars

\* A pool thread takes the next task from the queue and enters
\* scrape_single_reaction_wrapper.
StartTask(r) ==
    /\ FirstQueued(r)
    /\ PoolHasFreeWorker(Cardinality(Running), max_workers)
    /\ fut' = [fut EXCEPT ![r] = "running"]
    /\ wstep' = [wstep EXCEPT ![r] = "get_driver"]
    /\ UNCHANGED <<bpc, max_workers, reaction_ids, submitted, w_result, sessions,
                   completed, total, reactions_data, completion_order, batch_return>>
    /\ UNCHANGED <<opens, quits>>
    /\ UNCHANGED nonBvars

\* driver = get_driver()
WorkerGetDriver(r) ==
    /\ fut[r] = "running"
    /\ wstep[r] = "get_driver"
    /\ sessions' = sessions \cup {r}
    /\ wstep' = [wstep EXCEPT ![r] = "scrape"]
    /\ UNCHANGED <<bpc, max_workers, reaction_ids, submitted, fut, w_result, completed,
                   total, reactions_data, completion_order, batch_return>>
    /\ opens' = [opens EXCEPT ![r] = @ + 1]
    /\ UNCHANGED quits
    /\ UNCHANGED nonBvars

\* get_driver() raises: the task ends with the exception, outside the try.
WorkerGetDriverFails(r) ==
    /\ fut[r] = "running"
    /\ wstep[r] = "get_driver"
    /\ fut' = [fut EXCEPT ![r] = "exception"]
    /\ wstep' = [wstep EXCEPT ![r] = "raised"]
    /\ UNCHANGED <<bpc, max_workers, reaction_ids, submitted, w_result, sessions,
                   completed, total, reactions_data, completion_order, batch_return>>
    /\ UNCHANGED <<opens, quits>>
    /\ UNCHANGED nonBvars

\* result = scrape_reaction_data(driver, reaction_id): a success with the
\* payload read from the page, or the 'Max retries exceeded' failure.
WorkerScrape(r) ==
    /\ fut[r] = "running"
    /\ wstep[r] = "scrape"
    /\ \E res \in {FailureResult(r)} \cup {SuccessWith(r, p) : p \in WorkerPayloads} :
        /\ w_result' = [w_result EXCEPT ![r] = res]
        /\ wstep' = [wstep EXCEPT ![r] = IF res.success THEN "format" ELSE "increment"]
    /\ UNCHANGED <<bpc, max_workers, reaction_ids, submitted, fut, sessions, completed,
                   total, reactions_data, completion_order, batch_return>>
    /\ UNCHANGED <<opens, quits>>
    /\ UNCHANGED nonBvars

\* if result['success']: result['formatted_data'] = format_reaction_data(result)
WorkerFormat(r) ==
    /\ fut[r] = "running"
    /\ wstep[r] = "format"
    /\ ~OrdFormatRaises(w_result[r])
    /\ w_result' = [w_result EXCEPT ![r] = WithFormatted(w_result[r])]
    /\ wstep' = [wstep EXCEPT ![r] = "increment"]
    /\ UNCHANGED <<bpc, max_workers, reaction_ids, submitted, fut, sessions, completed,
                   total, reactions_data, completion_order, batch_return>>
    /\ UNCHANGED <<opens, quits>>
    /\ UNCHANGED nonBvars

\* format_reaction_data raises: finally quits the session and the task ends
\* with the exception.
WorkerFormatFails(r) ==
    /\ fut[r] = "running"
    /\ wstep[r] = "format"
    /\ OrdFormatRaises(w_result[r])
    /\ sessions' = sessions \ {r}
    /\ fut' = [fut EXCEPT ![r] = "exception"]
    /\ wstep' = [wstep EXCEPT ![r] = "raised"]
    /\ UNCHANGED <<bpc, max_workers, reaction_ids, submitted, w_result, completed,
                   total, reactions_data, completion_order, batch_return>>
    /\ quits' = QuitInFinally(quits, r, "raised")
    /\ UNCHANGED opens
    /\ UNCHANGED nonBvars

\* progress_counter.increment(), return result, finally driver.quit().
WorkerFinish(r) ==
    /\ fut[r] = "running"
    /\ wstep[r] = "increment"
    /\ completed' = completed + 1
    /\ sessions' = sessions \ {r}
    /\ fut' = [fut EXCEPT ![r] = "result"]
    /\ wstep' = [wstep EXCEPT ![r] = "ended"]
    /\ UNCHANGED <<bpc, max_workers, reaction_ids, submitted, w_result, total,
                   reactions_data, completion_order, batch_return>>
    /\ quits' = QuitInFinally(quits, r, "returned")
    /\ UNCHANGED opens
    /\ UNCHANGED nonBvars

\* One iteration of the loop over as_completed.
Collect(r) ==
    /\ bpc = "collect"
    /\ fut[r] \in {"result", "exception"}
    /\ reactions_data' = AppendCollected(reactions_data, fut[r], w_result[r], r)
    /\ completion_order' = Append(completion_order, r)
    /\ fut' = [fut EXCEPT ![r] = "collected"]
    /\ UNCHANGED <<bpc, max_workers, reaction_ids, submitted, wstep, w_result, sessions,
                   completed, total, batch_return>>
    /\ UNCHANGED <<opens, quits>>
    /\ UNCHANGED nonBvars

\* A loop that is left after the first collected future.
AsCompletedExhaustedEarly == \E r \in Range(reaction_ids) : fut[r] = "collected"

\* for future in as_completed(future_to_reaction): the iterator is exhausted
\* once every submitted future was yielded, and the with block has ended.
AsCompletedExhausted == \A r \in Range(reaction_ids) : fut[r] = "collected"

\* The loop over as_completed is over and the pool is shut down: the list
\* is sorted and the summary returned; finally quits the batch's session.
SortAndReturn ==
    /\ bpc = "collect"
    /\ AsCompletedExhausted
    /\ reactions_data' = SortByOrder(reactions_data, reaction_ids)
    /\ batch_return' = Summary(SortByOrder(reactions_data, reaction_ids))
    /\ bpc' = "returned"
    /\ UNCHANGED <<max_workers, reaction_ids, submitted, fut, wstep, w_result, sessions,
                   completed, total, completion_order>>
    /\ quits' = QuitInFinally(quits, "batch", "returned")
    /\ UNCHANGED opens
    /\ UNCHANGED nonBvars

BNext ==
    \/ BatchGetDriver
    \/ BatchGetDriverFails
    \/ BeginBatch
    \/ Submit
    \/ \E r \in BatchIds : StartTask(r)
    \/ \E r \in BatchIds : WorkerGetDriver(r)
    \/ \E r \in BatchIds : WorkerGetDriverFails(r)
    \/ \E r \in BatchIds : WorkerScrape(r)
    \/ \E r \in BatchIds : WorkerFormat(r)
    \/ \E r \in BatchIds : WorkerFormatFails(r)
    \/ \E r \in BatchIds : WorkerFinish(r)
    \/ \E r \in BatchIds : Collect(r)
    \/ SortAndReturn

SpecBatch == BInit /\ [][BNext]_vars

\* ------------------------------------------- format_reaction_data (CRD)

\* Component names; the empty name stands for every falsy name.
Names == {"", "X", "Y", "Z"}
\* The component has no 'role' key.
NoRole == "(no role key)"
\* Declared role strings.
RoleStrings == {"reactant", "REACTANT", "product", "reactant_details", "smiles"}
Components == [name : Names, role : RoleStrings \cup {NoRole}]

\* str.lower() on the role strings.
Lower(str) ==
    CASE str = "REACTANT" -> "reactant"
      [] str = "reactant" -> "reactant"
      [] str = "product" -> "product"
      [] str = "reactant_details" -> "reactant_details"
      [] str = "smiles" -> "smiles"
      [] str = "unknown" -> "unknown"
      [] str = "Reactant" -> "reactant"
      [] str = "" -> ""

\* item.get('role', 'unknown').lower()
GroupKey(item) == Lower(IF item.role = NoRole THEN "unknown" ELSE item.role)

\* A dictionary value: a string or a list.
StrValue(str) == [kind |-> "str", text |-> str, items |-> <<>>]
ListValue(list) == [kind |-> "list", text |-> "", items |-> list]

\* d[key] = value
Put(d, key, value) ==
    [k \in (DOMAIN d) \cup {key} |-> IF k = key THEN value ELSE d[k]]

\* The keys of grouped_data in insertion order.
GroupedRoles(chemicals) ==
    LET roles[n \in 0..Len(chemicals)] ==
            IF n = 0 THEN <<>>
            ELSE IF GroupKey(chemicals[n]) \in Range(roles[n - 1]) THEN roles[n - 1]
            ELSE Append(roles[n - 1], GroupKey(chemicals[n]))
    IN roles[Len(chemicals)]

\* grouped_data[role]
GroupedItems(chemicals, role) ==
    LET InGroup(item) == GroupKey(item) = role
    IN SelectSeq(chemicals, InGroup)

\* [i.get('name') for i in items if i.get('name')]
NamesOf(items) ==
    LET HasName(item) == item.name \notin {"", NoText}
        named == SelectSeq(items, HasName)
    IN [i \in 1..Len(named) |-> named[i].name]

\* " + ".join(names)
JoinPlus(names) ==
    LET joined[n \in 0..Len(names)] ==
            IF n = 0 THEN ""
            ELSE IF n = 1 THEN names[1]
            ELSE joined[n - 1] \o " + " \o names[n]
    IN joined[Len(names)]

\* The base dictionary.
BaseOutput(parsed, meta) ==
    [k \in {"Reaction_Data_Origin", "details_url", "smiles", "all_chemicals_raw"} |->
        CASE k = "Reaction_Data_Origin" -> StrValue(meta.Reaction_Data_Origin)
          [] k = "details_url" -> StrValue(meta.details_url)
          [] k = "smiles" -> StrValue(parsed.raw_smiles)
          [] k = "all_chemicals_raw" -> ListValue(parsed.chemicals)]

\* format_reaction_data(parsed_data, metadata)
FormatReactionData(parsed, meta) ==
    LET roles == GroupedRoles(parsed.chemicals)
        out[n \in 0..Len(roles)] ==
            IF n = 0 THEN BaseOutput(parsed, meta)
            ELSE LET items == GroupedItems(parsed.chemicals, roles[n])
                 IN Put(Put(out[n - 1], roles[n], StrValue(JoinPlus(NamesOf(items)))),
                        roles[n] \o "_details", ListValue(items))
    IN out[Len(roles)]

FInit ==
    /\ fpc = "called"
    /\ parsed_data \in [chemicals : SeqsUpTo(Components, MaxComponents),
                        raw_smiles : {"CC>>CO"}]
    /\ metadata = [Reaction_Data_Origin |-> "origin", details_url |-> "url"]
    /\ output = <<>>
    /\ TIdle
    /\ RIdle
    /\ BIdle
    /\ OIdle
    /\ SIdle
    /\ CIdle
    /\ PIdle
    /\ QIdle
    /\ MIdle

\* A normaliser that lower-cases each item's role in place while grouping.
ChemicalsLoweredInPlace(chemicals) ==
    [i \in 1..Len(chemicals) |->
        [chemicals[i] EXCEPT !.role = IF @ = NoRole THEN @ ELSE Lower(@)]]

\* parsed_data['chemicals'] after the call: the function reads the list and its
\* items (get, append to its own grouped_data) and assigns to none of them.
ChemicalsAfterFormat(chemicals) == chemicals

\* The call returns its dictionary.
Format ==
    /\ fpc = "called"
    /\ output' = FormatReactionData(parsed_data, metadata)
    /\ parsed_data' = [parsed_data EXCEPT !.chemicals = ChemicalsAfterFormat(@)]
    /\ fpc' = "returned"
    /\ UNCHANGED metadata
    /\ UNCHANGED nonFvars

\* A second call on the same arguments.
FormatAgain ==
    /\ fpc = "returned"
    /\ output' = FormatReactionData(parsed_data, metadata)
    /\ parsed_data' = [parsed_data EXCEPT !.chemicals = ChemicalsAfterFormat(@)]
    /\ fpc' = "again"
    /\ UNCHANGED metadata
    /\ UNCHANGED nonFvars

FNext ==
    \/ Format
    \/ FormatAgain

SpecFormat == FInit /\ [][FNext]_vars

\* Either normaliser, called twice on one argument.
SpecNormalize == (FInit \/ OInit) /\ [][FNext \/ ONext]_vars

\* ------------------------------------------- process_reaction_data (CRD)

\* get_text(tag): node.text if node is not None else ""
GetText(field) ==
    CASE field = Absent -> ""
      [] field = EmptyElement -> NoText
      [] OTHER -> field

\* A reaction document with its molecules (of the six sub-elements, name
\* and role).
XmlDoc(molecules) == [wellformed |-> TRUE, smiles |-> "CC>>CO", molecules |-> molecules]
XmlDocs ==
    {NotXml,
     XmlDoc(<<>>),
     XmlDoc(<<[name |-> "X", role |-> "Reactant"]>>),
     XmlDoc(<<[name |-> "X", role |-> "Reactant"], [name |-> "Y", role |-> EmptyElement]>>),
     XmlDoc(<<[name |-> Absent, role |-> Absent], [name |-> "Y", role |-> "product"]>>)}

\* An exception inside parse_xml_data: ET.fromstring on text that is not XML,
\* or .lower() on the None that get_text("role") returns for an empty element.
ParseRaises(doc) ==
    \/ ~doc.wellformed
    \/ \E i \in 1..Len(doc.molecules) : GetText(doc.molecules[i].role) = NoText

\* parse_xml_data(xml_string): None when anything raised.
ParseXmlData(doc) ==
    IF ParseRaises(doc) THEN None
    ELSE Some([chemicals |-> [i \in 1..Len(doc.molecules) |->
                                 [name |-> GetText(doc.molecules[i].name),
                                  role |-> Lower(GetText(doc.molecules[i].role))]],
               raw_smiles |-> GetText(doc.smiles)])

\* Listing pages of one archive entry, and the detail pages they link to.
Pages == {"p1", "p2", "p3"}
ItemUrls == {"d1", "d2"}

\* What the requests for one item meet before a document is parsed.
ItemFailures ==
    {"detail_request_raises", "detail_status_not_200", "no_xml_link",
     "xml_request_raises", "xml_status_not_200"}
ItemOutcomes ==
    {Met(kind, NotXml) : kind \in ItemFailures} \cup {Met("document", doc) : doc \in XmlDocs}

\* A promotion test that only asks for a parsed payload.
PromotedWhenParsed(parsed) == parsed # None

\* if parsed_data and parsed_data['chemicals']:
Promoted(parsed) ==
    IF parsed = None THEN FALSE ELSE parsed[1].chemicals # <<>>

\* The list after the for loop's body has run for one item.
AfterItem(list, url, outcome) ==
    IF outcome.met \in ItemFailures THEN list
    ELSE LET parsed == ParseXmlData(outcome.doc)
         IN IF Promoted(parsed)
            THEN Append(list,
                        FormatReactionData(
                            IF parsed = None
                            THEN [chemicals |-> <<>>, raw_smiles |-> ""]
                            ELSE parsed[1],
                            [Reaction_Data_Origin |-> "origin", details_url |-> url]))
            ELSE list

\* An item body whose exception leaves the for loop.
ItemExitPropagates(outcome) ==
    IF \/ outcome.met \in {"detail_request_raises", "xml_request_raises"}
       \/ outcome.met = "document" /\ ParseRaises(outcome.doc)
    THEN "abort" ELSE "continue"

\* Where control goes after the body has run for one item: whatever the
\* requests raise is caught by 'except Exception: pass', and parse_xml_data
\* catches its own exceptions, so the for loop always goes on.
ItemExit(outcome) == "continue"

\* A 'Next' candidate: whether it is displayed, and its href (None, or a
\* target page with or without a fragment).
Candidates ==
    [displayed : BOOLEAN,
     href : {None} \cup {Some([target |-> t, fragment |-> f]) : t \in Pages, f \in BOOLEAN}]

\* A test for the next link that does not compare with the current page.
ActionableSamePage(candidate, url) ==
    /\ candidate.displayed
    /\ candidate.href # None
    /\ IF candidate.href = None THEN FALSE ELSE ~candidate.href[1].fragment

\* if href and href != current_url and "#" not in href
Actionable(candidate, url) ==
    /\ candidate.displayed
    /\ candidate.href # None
    /\ IF candidate.href = None THEN FALSE
       ELSE /\ ~candidate.href[1].fragment
            /\ candidate.href[1].target # url

\* The page a hidden or fragment link of the page url points to.
Successor(url) ==
    CASE url = "p1" -> "p2"
      [] url = "p2" -> "p3"
      [] OTHER -> "p1"

\* The 'Next' elements a page at url can show: a hidden link, an element
\* without href, a link to the page itself, a link with a fragment, and the
\* links to the other pages.
CandidatesOn(url) ==
    {[displayed |-> FALSE, href |-> Some([target |-> Successor(url), fragment |-> FALSE])],
     [displayed |-> TRUE, href |-> None],
     [displayed |-> TRUE, href |-> Some([target |-> url, fragment |-> FALSE])],
     [displayed |-> TRUE, href |-> Some([target |-> Successor(url), fragment |-> TRUE])]}
    \cup {[displayed |-> TRUE, href |-> Some([target |-> t, fragment |-> FALSE])] :
             t \in Pages \ {url}}

\* driver.find_elements(By.XPATH, ...): the elements in document order.
CandidateLists(url) == SeqsUpTo(CandidatesOn(url), MaxCandidates)

\* The for loop over the candidates: next_link is the href of the first
\* actionable one (the loop breaks at it), None when there is none.
RECURSIVE NextLink(_, _)
NextLink(btns, url) ==
    IF btns = <<>> THEN None
    ELSE IF Actionable(Head(btns), url) THEN Head(btns).href
    ELSE NextLink(Tail(btns), url)

\* What the search of lines 232-239 can meet on each page: the elements
\* found and the link the loop over them ends with.
Searches ==
    [url \in Pages |->
        {[found |-> btns, link |-> NextLink(btns, url)] : btns \in CandidateLists(url)}]

PInit ==
    /\ ppc = "load"
    /\ current_url = "p1"
    /\ last_item = NoItem
    /\ item_index = 0
    /\ reaction_data_list = <<>>
    /\ candidates = <<>>
    /\ next_link = None
    /\ process_return = None
    /\ TIdle
    /\ RIdle
    /\ BIdle
    /\ FIdle
    /\ OIdle
    /\ SIdle
    /\ CIdle
    /\ QIdle
    /\ MIdle

\* break, and the return after the loop.
Break ==
    /\ ppc' = "returned"
    /\ process_return' = Some(reaction_data_list)

\* A new iteration of the while loop: the elements and the link of the
\* previous iteration's search are no longer read.
NewIteration ==
    /\ candidates' = <<>>
    /\ next_link' = None

\* driver.get, the wait, the cookies and extract_list_items: the page has items.
LoadPage ==
    /\ ppc = "load"
    /\ ppc' = "items"
    /\ NewIteration
    /\ UNCHANGED <<current_url, last_item, item_index, reaction_data_list, process_return>>
    /\ UNCHANGED nonPvars

\* The page has no 'Details' link: break.
LoadEmptyPage ==
    /\ ppc = "load"
    /\ Break
    /\ NewIteration
    /\ UNCHANGED <<current_url, last_item, item_index, reaction_data_list>>
    /\ UNCHANGED nonPvars

\* A page error that gives up what was collected.
PageErrorReturnEmpty(list) == <<>>

\* except Exception: print 'Page Error', break -- and the return after the
\* loop hands back the list as it is.
PageErrorReturn(list) == list

\* driver.get or the wait raises: 'Page Error', break.
LoadFails ==
    /\ ppc = "load"
    /\ ppc' = "returned"
    /\ process_return' = Some(PageErrorReturn(reaction_data_list))
    /\ NewIteration
    /\ UNCHANGED <<current_url, last_item, item_index, reaction_data_list>>
    /\ UNCHANGED nonPvars

\* One iteration of the for loop over found_items: url is the item's detail
\* page, outcome what its requests meet.
ProcessItem ==
    /\ ppc = "items"
    /\ item_index < MaxItems
    /\ item_index' = item_index + 1
    /\ \E url \in ItemUrls, outcome \in ItemOutcomes :
        /\ Len(AfterItem(reaction_data_list, url, outcome)) <= MaxRecords
        /\ last_item' = [url |-> url, outcome |-> outcome]
        /\ reaction_data_list' = AfterItem(reaction_data_list, url, outcome)
        /\ IF ItemExit(outcome) = "abort"
           THEN /\ ppc' = "returned"
                /\ process_return' = Some(reaction_data_list')
           ELSE /\ ppc' = "items"
                /\ UNCHANGED process_return
    /\ UNCHANGED <<current_url, candidates, next_link>>
    /\ UNCHANGED nonPvars

\* found_items (never empty here) is exhausted: the for loop is over and the
\* 'Next Page Logic' begins.
EndOfItems ==
    /\ ppc = "items"
    /\ item_index >= 1
    /\ ppc' = "next"
    /\ last_item' = NoItem
    /\ item_index' = 0
    /\ UNCHANGED <<current_url, reaction_data_list, candidates, next_link, process_return>>
    /\ UNCHANGED nonPvars

\* The search finds an actionable candidate (after any number that are not)
\* and stops at it: the while loop goes on with its target.
FollowNext ==
    /\ ppc = "next"
    /\ \E search \in Searches[current_url] :
        /\ search.link # None
        /\ candidates' = search.found
        /\ next_link' = search.link
        /\ current_url' = search.link[1].target
    /\ ppc' = "load"
    /\ UNCHANGED <<last_item, item_index, reaction_data_list, process_return>>
    /\ UNCHANGED nonPvars

\* The search ends without an actionable candidate (there may be none at
\* all): next_link stays None, break.
NoNextLink ==
    /\ ppc = "next"
    /\ \E search \in Searches[current_url] :
        /\ search.link = None
        /\ candidates' = search.found
    /\ next_link' = None
    /\ Break
    /\ UNCHANGED <<current_url, last_item, item_index, reaction_data_list>>
    /\ UNCHANGED nonPvars

\* find_elements raises (no element was found), or is_displayed or
\* get_attribute raises on the first element found: the bare except breaks
\* before a link is chosen.
NextFails ==
    /\ ppc = "next"
    /\ \E search \in Searches[current_url] :
        /\ Len(search.found) <= 1
        /\ candidates' = search.found
    /\ next_link' = None
    /\ Break
    /\ UNCHANGED <<current_url, last_item, item_index, reaction_data_list>>
    /\ UNCHANGED nonPvars

PNext ==
    \/ LoadPage
    \/ LoadEmptyPage
    \/ LoadFails
    \/ ProcessItem
    \/ EndOfItems
    \/ FollowNext
    \/ NoNextLink
    \/ NextFails

SpecProcess == PInit /\ [][PNext]_vars

\* process_reaction_data is one sequential function: as long as a statement
\* of it can run, one does.
SpecProcessFair == SpecProcess /\ WF_vars(PNext)

\* The two traversals that collect over the pages of one listing.
SpecListings ==
    ((TInit /\ mode = "reaction") \/ PInit) /\ [][TNext \/ PNext]_vars

\* ------------------------------------------ scrape_all_datasets_sequential

\* The identifiers the browse listing can show.
DatasetIds == {"ds1", "ds2", "ds3"}

\* What get_all_dataset_ids can return: up to n identifiers, none twice.
DatasetLists(n) == {ids \in SeqsUpTo(DatasetIds, n) : NoDuplicates(ids)}

\* if max_datasets: dataset_ids = dataset_ids[:max_datasets]
SelectDatasets(ids, limit) ==
    IF Truthy(limit)
    THEN SubSeq(ids, 1, IF limit[1] < Len(ids) THEN limit[1] ELSE Len(ids))
    ELSE ids

\* What the reactions of one dataset came to: scraped, failed, or raised.
DatasetData ==
    {<<SuccessResult("A")>>, <<FailureResult("A")>>,
     <<SuccessResult("A"), ExceptionResult("B")>>}

\* What scrape_single_dataset_parallel returns for a dataset.
DatasetResults(dataset_id) ==
    {[EmptySummary EXCEPT !.dataset_id = dataset_id]}
    \cup {[Summary(data) EXCEPT !.dataset_id = dataset_id] : data \in DatasetData}

\* A handler that reports the failure and appends nothing.
AfterDatasetErrorNoEntry(results, dataset_id) == results

\* except Exception as e: all_results.append({'dataset_id': ..., 'error': str(e)})
AfterDatasetError(results, dataset_id) ==
    Append(results, [dataset_id |-> dataset_id, error |-> "exception text"])

QInit ==
    /\ qpc = "start"
    /\ max_datasets \in {None} \cup {Some(n) : n \in 0..MaxDatasets}
    /\ discovered = <<>>
    /\ dataset_ids = <<>>
    /\ dataset_index = 0
    /\ attempted = <<>>
    /\ all_results = <<>>
    /\ run_return = None
    /\ TIdle
    /\ RIdle
    /\ BIdle
    /\ FIdle
    /\ OIdle
    /\ SIdle
    /\ CIdle
    /\ PIdle
    /\ MIdle

\* Step 1: get_all_dataset_ids returns, and the list is cut to max_datasets.
Discover ==
    /\ qpc = "start"
    /\ \E ids \in DatasetLists(MaxDatasets) :
        /\ discovered' = ids
        /\ dataset_ids' = SelectDatasets(ids, max_datasets)
    /\ qpc' = "loop"
    /\ UNCHANGED <<max_datasets, dataset_index, attempted, all_results, run_return>>
    /\ UNCHANGED nonQvars

\* get_all_dataset_ids raises (it has a finally but no except): so does the run.
DiscoverFails ==
    /\ qpc = "start"
    /\ qpc' = "raised"
    /\ UNCHANGED <<max_datasets, discovered, dataset_ids, dataset_index, attempted,
                   all_results, run_return>>
    /\ UNCHANGED nonQvars

\* One iteration of the for loop: scrape_single_dataset_parallel returns.
ScrapeDataset ==
    /\ qpc = "loop"
    /\ dataset_index < Len(dataset_ids)
    /\ LET dataset_id == dataset_ids[dataset_index + 1]
       IN /\ \E res \in DatasetResults(dataset_id) : all_results' = Append(all_results, res)
          /\ attempted' = Append(attempted, dataset_id)
    /\ dataset_index' = dataset_index + 1
    /\ UNCHANGED <<qpc, max_datasets, discovered, dataset_ids, run_return>>
    /\ UNCHANGED nonQvars

\* One iteration of the for loop: scrape_single_dataset_parallel raises.
ScrapeDatasetFails ==
    /\ qpc = "loop"
    /\ dataset_index < Len(dataset_ids)
    /\ LET dataset_id == dataset_ids[dataset_index + 1]
       IN /\ all_results' = AfterDatasetError(all_results, dataset_id)
          /\ attempted' = Append(attempted, dataset_id)
    /\ dataset_index' = dataset_index + 1
    /\ UNCHANGED <<qpc, max_datasets, discovered, dataset_ids, run_return>>
    /\ UNCHANGED nonQvars

\* The for loop is over: the totals, the JSON file, and the return.
SaveAndReturn ==
    /\ qpc = "loop"
    /\ dataset_index = Len(dataset_ids)
    /\ qpc' = "returned"
    /\ run_return' = Some(all_results)
    /\ UNCHANGED <<max_datasets, discovered, dataset_ids, dataset_index, attempted,
                   all_results>>
    /\ UNCHANGED nonQvars

\* open or json.dump raises: the run ends with the exception.
SaveFails ==
    /\ qpc = "loop"
    /\ dataset_index = Len(dataset_ids)
    /\ qpc' = "raised"
    /\ UNCHANGED <<max_datasets, discovered, dataset_ids, dataset_index, attempted,
                   all_results, run_return>>
    /\ UNCHANGED nonQvars

QNext ==
    \/ Discover
    \/ DiscoverFails
    \/ ScrapeDataset
    \/ ScrapeDatasetFails
    \/ SaveAndReturn
    \/ SaveFails

SpecSequential == QInit /\ [][QNext]_vars

\* ------------------------------------------------------------------ main

\* The keys main reads by subscript from every entry of the results.
MainReads == {"dataset_id", "total_reactions", "successful_scrapes"}

\* dataset['dataset_id'], dataset['total_reactions'], dataset['successful_scrapes']
\* raise KeyError on an entry that lacks one of the keys.
KeyErrorIn(dataset) == ~(MainReads \subseteq DOMAIN dataset)

\* [r['formatted_data'] for r in dataset.get('reactions', [])
\*  if r.get('success') and 'formatted_data' in r]
FormattedOf(dataset) ==
    LET reactions == IF "reactions" \in DOMAIN dataset THEN dataset.reactions ELSE <<>>
        Kept(r) == IF "success" \in DOMAIN r
                   THEN r.success /\ "formatted_data" \in DOMAIN r
                   ELSE FALSE
        kept == SelectSeq(reactions, Kept)
    IN [i \in 1..Len(kept) |-> kept[i].formatted_data]

\* The value main stores under the entry's dataset_id.
MainEntry(dataset) ==
    [dataset_id |-> dataset.dataset_id,
     total_reactions |-> dataset.total_reactions,
     successful_scrapes |-> dataset.successful_scrapes,
     reactions |-> FormattedOf(dataset)]

\* formatted_results after the loop went over results: a later entry
\* replaces an earlier one of the same dataset_id.
FormattedResults(results) ==
    LET LastOf(id) == CHOOSE i \in 1..Len(results) :
                          /\ results[i].dataset_id = id
                          /\ \A j \in (i + 1)..Len(results) : results[j].dataset_id # id
    IN [id \in {results[i].dataset_id : i \in 1..Len(results)} |->
            MainEntry(results[LastOf(id)])]

\* The entries the loop of main gets through: all of them, or those before
\* the first one that raises.
ReadableUpTo(results) ==
    IF \E i \in 1..Len(results) : KeyErrorIn(results[i])
    THEN SubSeq(results, 1,
                (CHOOSE i \in 1..Len(results) :
                    /\ KeyErrorIn(results[i])
                    /\ \A j \in 1..(i - 1) : ~KeyErrorIn(results[j])) - 1)
    ELSE results

\* scrape_all_datasets_sequential raised: main has no handler.
MainRunRaised ==
    /\ mpc = "idle"
    /\ qpc = "raised"
    /\ mpc' = "raised"
    /\ main_error' = "run"
    /\ UNCHANGED formatted_results
    /\ UNCHANGED nonMvars

\* results = scrape_all_datasets_sequential(...) returned:
\* display_results_as_table (it reads with .get and skips an entry without
\* successful scrapes), then the loop that builds formatted_results.
MainFormat ==
    /\ mpc = "idle"
    /\ qpc = "returned"
    /\ LET results == run_return[1]
       IN /\ formatted_results' = FormattedResults(ReadableUpTo(results))
          /\ IF ReadableUpTo(results) = results
             THEN mpc' = "formatted" /\ UNCHANGED main_error
             ELSE mpc' = "raised" /\ main_error' = "KeyError"
    /\ UNCHANGED nonMvars

\* json.dump(formatted_results, f, ...) and the closing message.
MainSave ==
    /\ mpc = "formatted"
    /\ mpc' = "done"
    /\ UNCHANGED <<formatted_results, main_error>>
    /\ UNCHANGED nonMvars

\* open or json.dump raises.
MainSaveFails ==
    /\ mpc = "formatted"
    /\ mpc' = "raised"
    /\ main_error' = "io"
    /\ UNCHANGED formatted_results
    /\ UNCHANGED nonMvars

MNext ==
    \/ MainRunRaised
    \/ MainFormat
    \/ MainSave
    \/ MainSaveFails

\* main: the sequential run, then main's own statements.
SpecMain == QInit /\ [][QNext \/ MNext]_vars

\* ---------------------------------------------- ProgressCounter.increment

\* A lock that never blocks.
LockFreeAlways(holder) == TRUE

\* with self.lock: the thread enters only while no thread holds the lock.
LockFree(holder) == holder = None

CInit ==
    /\ calls \in 1..MaxCalls
    /\ lock = None
    /\ counter = 0
    /\ ipc = [t \in Threads |-> IF t <= calls THEN "call" ELSE "none"]
    /\ loaded = [t \in Threads |-> 0]
    /\ returns = [t \in Threads |-> None]
    /\ TIdle
    /\ RIdle
    /\ BIdle
    /\ FIdle
    /\ OIdle
    /\ SIdle
    /\ PIdle
    /\ QIdle
    /\ MIdle

\* with self.lock: __enter__ acquires the lock.
Acquire(t) ==
    /\ ipc[t] = "call"
    /\ LockFree(lock)
    /\ lock' = Some(t)
    /\ ipc' = [ipc EXCEPT ![t] = "locked"]
    /\ UNCHANGED <<calls, counter, loaded, returns>>
    /\ UNCHANGED nonCvars

\* self.completed += 1, first half: the attribute is read.
Load(t) ==
    /\ ipc[t] = "locked"
    /\ loaded' = [loaded EXCEPT ![t] = counter]
    /\ ipc' = [ipc EXCEPT ![t] = "loaded"]
    /\ UNCHANGED <<calls, lock, counter, returns>>
    /\ UNCHANGED nonCvars

\* self.completed += 1, second half: the sum is stored.
Store(t) ==
    /\ ipc[t] = "loaded"
    /\ counter' = loaded[t] + 1
    /\ ipc' = [ipc EXCEPT ![t] = "stored"]
    /\ UNCHANGED <<calls, lock, loaded, returns>>
    /\ UNCHANGED nonCvars

\* return self.completed: the attribute is read again, then __exit__
\* releases the lock.
Return(t) ==
    /\ ipc[t] = "stored"
    /\ returns' = [returns EXCEPT ![t] = Some(counter)]
    /\ lock' = None
    /\ ipc' = [ipc EXCEPT ![t] = "returned"]
    /\ UNCHANGED <<calls, counter, loaded>>
    /\ UNCHANGED nonCvars

CNext ==
    \/ \E t \in Threads : Acquire(t)
    \/ \E t \in Threads : Load(t)
    \/ \E t \in Threads : Store(t)
    \/ \E t \in Threads : Return(t)

SpecCounter == CInit /\ [][CNext]_vars

\* ------------------------------------------------------ session lifetimes

\* The two top-level operations that acquire sessions: get_all_dataset_ids,
\* and scrape_single_dataset_parallel with its workers.
SpecSessions ==
    ((TInit /\ mode = "dataset") \/ BInit) /\ [][TNext \/ BNext]_vars

\* ------------------------------------------------- claims on the traversal

\* C2: the identifier list holds no identifier twice, at every point of the
\* traversal and in the returned value, in both traversal loops.
DedupInvariant == NoDuplicates(all_ids) /\ NoDuplicates(returned)

\* A second page is over that repeated an identifier of the first page and
\* showed another one twice.
DedupWitness ==
    /\ tpc = "check"
    /\ page = 2
    /\ page_links = <<"A", "B", "B">>
    /\ all_ids = <<"A", "B">>

\* C3: the list holds exactly the identifiers met, each one in front of every
\* identifier first met after it, and it is the list that is returned.
DiscoveryOrder ==
    /\ Range(all_ids) = seen
    /\ \A i, j \in 1..Len(all_ids) :
          i < j => /\ <<all_ids[i], all_ids[j]>> \in precedes
                   /\ <<all_ids[j], all_ids[i]>> \notin precedes
    /\ tpc = "returned" => returned = all_ids

\* Pages [A,B,C] then [C,D] were scanned and gave [A,B,C,D].
DiscoveryOrderWitness ==
    /\ tpc = "check"
    /\ page = 2
    /\ prev_count = 3
    /\ page_links = <<"C", "D">>
    /\ all_ids = <<"A", "B", "C", "D">>

\* C8: when the count after a page equals the count after the previous page,
\* the traversal stops at that page without activating the 'next' control,
\* and a stopped traversal never activates it again.
StuckTermination ==
    [][/\ (tpc = "check" /\ Len(all_ids) = prev_count)
            => (tpc' = "returned" /\ clicks' = clicks)
       /\ tpc = "returned" => (tpc' = "returned" /\ clicks' = clicks)]_vars

\* The second page added nothing and the traversal stopped as stuck.
StuckWitness ==
    /\ tpc = "returned"
    /\ stop_reason = "stuck"
    /\ page = 2
    /\ clicks = 1

\* C9: the traversal never goes on to the 'next' control, and never stops as
\* stuck, when a total-count hint was obtained and the count has reached it.
CompletionHasPriority ==
    (total_entries # None /\ Len(all_ids) >= total_entries[1])
        => /\ tpc # "next"
           /\ (tpc = "returned" /\ stop_reason # "") =>
                  stop_reason \in {"complete", "empty", "limit", "find_error"}

\* The priority of C9 for the hints the code honours, those of at least 1.
CompletionHasPriorityPositiveHint ==
    (Truthy(total_entries) /\ Len(all_ids) >= total_entries[1])
        => /\ tpc # "next"
           /\ (tpc = "returned" /\ stop_reason # "") =>
                  stop_reason \in {"complete", "empty", "limit", "find_error"}

\* A hint of 1 was reached on a page that added an identifier: the
\* traversal stopped as complete without a click.
CompletionWitness ==
    /\ tpc = "returned"
    /\ stop_reason = "complete"
    /\ total_entries = Some(1)
    /\ all_ids = <<"A">>
    /\ clicks = 0

\* C29: the pagination loop of the ORD traversals stops, whatever the 'Next'
\* control does, because every iteration that continues has strictly
\* increased the de-duplicated count: the loop never clicks 'Next' more often
\* than it has identifiers, and a listing has only finitely many of them.
IterationsBounded ==
    /\ page = clicks + 1
    /\ clicks <= Len(all_ids)
    /\ Len(all_ids) <= Cardinality(Ids)
    /\ prev_count <= Len(all_ids)
    /\ tpc = "next" => (prev_count = Len(all_ids) /\ clicks < Len(all_ids))

\* The loop went on twice, each time with one more identifier, and stopped
\* on the third page, which had nothing new.
IterationsBoundedWitness ==
    /\ tpc = "returned"
    /\ clicks = 2
    /\ Len(all_ids) = 2
    /\ prev_count = 2

\* The same as a liveness property of the fair traversal: the call eventually
\* returns or raises.
TraversalTerminates == <>(tpc \in {"returned", "raised"})

\* The caller gave a positive limit.
PositiveLimit == max_reactions # None /\ max_reactions[1] > 0

AlwaysFails == \A k \in 1..max_retries : fetch_plan[k] \in AttemptFailures

\* C6: never more than max_retries attempts are made, and a call whose
\* attempts all fail returns the 'Max retries exceeded' failure after exactly
\* max_retries attempts.
RetryBound ==
    /\ attempts_made <= max_retries
    /\ (rpc = "returned" /\ AlwaysFails) =>
           /\ attempts_made = max_retries
           /\ result = FailureResult(TheReaction)

\* Three failing attempts out of three were made and the failure returned.
RetryBoundWitness ==
    /\ rpc = "returned"
    /\ max_retries = MaxAttempts
    /\ AlwaysFails
    /\ attempts_made = MaxAttempts
    /\ result.success = FALSE

StopsAtFirstSuccess ==
    /\ rpc = "pause" => InRange(attempt + 1, max_retries)
    /\ rpc = "returned" =>
          /\ ~ENABLED RNext
          /\ \A k \in 1..attempts_made :
                fetch_plan[k] = "ok" =>
                    /\ k = attempts_made
                    /\ result = SuccessResult(TheReaction)
          /\ result.success => (attempts_made >= 1 /\ fetch_plan[attempts_made] = "ok")
          /\ max_retries >= 1 =>
                /\ 1 <= attempts_made
                /\ attempts_made <= max_retries
                /\ pauses = attempts_made - 1

\* The second of three allowed attempts succeeded: the call returned the
\* success after one pause and left the third attempt unused.
StopsAtFirstSuccessWitness ==
    /\ rpc = "returned"
    /\ max_retries = MaxAttempts
    /\ fetch_plan[1] \in AttemptFailures
    /\ fetch_plan[2] = "ok"
    /\ attempts_made = 2
    /\ pauses = 1
    /\ result = SuccessResult(TheReaction)

\* ------------------------- claims on scrape_single_dataset_parallel

\* The reaction_id sequence of a list of result dictionaries.
IdsOf(data) == [i \in 1..Len(data) |-> data[i].reaction_id]

\* C1: whatever the order in which the futures complete, the returned
\* 'reactions' list has the references in discovery order.
OrderRestoration ==
    bpc = "returned" => IdsOf(batch_return.reactions) = reaction_ids

\* A batch returned whose futures completed in reverse discovery order.
OrderRestorationWitness ==
    /\ bpc = "returned"
    /\ reaction_ids = <<"C", "A", "D">>
    /\ completion_order = <<"D", "A", "C">>

\* C4: a finished batch holds exactly one result for each submitted
\* reference, whether its task returned a success, a failure, or raised.
ExactlyOneResult ==
    bpc = "returned" =>
        /\ Len(batch_return.reactions) = Len(reaction_ids)
        /\ \A r \in Range(reaction_ids) :
              Cardinality({i \in 1..Len(batch_return.reactions) :
                              batch_return.reactions[i].reaction_id = r}) = 1
        /\ \A i \in 1..Len(batch_return.reactions) :
              batch_return.reactions[i].reaction_id \in Range(reaction_ids)

\* A batch returned with one success, one failure and one raised task.
ExactlyOneResultWitness ==
    /\ bpc = "returned"
    /\ Len(reaction_ids) = 3
    /\ \E i, j, k \in 1..3 :
          /\ batch_return.reactions[i] =
                WithFormatted(SuccessWith(reaction_ids[i], FilledPayload))
          /\ batch_return.reactions[j] = FailureResult(reaction_ids[j])
          /\ batch_return.reactions[k] = ExceptionResult(reaction_ids[k])

\* C5: never more than max_workers wrapper invocations are executing, and
\* never more than max_workers worker sessions are open.
ConcurrencyBound ==
    /\ Cardinality(Running) <= max_workers
    /\ Cardinality(sessions) <= max_workers
    /\ sessions \subseteq Running

\* All pool threads hold a session while a submitted task waits in the queue.
ConcurrencyBoundWitness ==
    /\ Cardinality(sessions) = max_workers
    /\ \E r \in BatchIds : fut[r] = "queued"

\* ------------------------------------ claims on format_reaction_data (CRD)

\* The lower-cased roles the components of the payload declare.
DeclaredRoles == {GroupKey(parsed_data.chemicals[i]) : i \in 1..Len(parsed_data.chemicals)}

\* The non-empty names of the components of a role, in encounter order.
ExpectedNames(role) ==
    LET Named(item) == GroupKey(item) = role /\ item.name # ""
        named == SelectSeq(parsed_data.chemicals, Named)
    IN [i \in 1..Len(named) |-> named[i].name]

\* C10: for every lower-cased role of the payload the output holds, under
\* that role, the '+'-joined non-empty names of its components in encounter
\* order.
RoleGrouping ==
    fpc = "returned" =>
        \A role \in DeclaredRoles :
            /\ role \in DOMAIN output
            /\ output[role] = StrValue(JoinPlus(ExpectedNames(role)))

\* No declared role is the details key of another declared role.
NoDetailsClash ==
    \A r1, r2 \in DeclaredRoles : r1 # r2 \o "_details"

\* The grouping of C10 for payloads without such a clash, with the example
\* of components X:reactant, Y:REACTANT, Z:product.
RoleGroupingNoClash ==
    (fpc = "returned" /\ NoDetailsClash) =>
        /\ \A role \in DeclaredRoles :
              /\ role \in DOMAIN output
              /\ output[role] = StrValue(JoinPlus(ExpectedNames(role)))
        /\ parsed_data.chemicals = <<[name |-> "X", role |-> "reactant"],
                                     [name |-> "Y", role |-> "REACTANT"],
                                     [name |-> "Z", role |-> "product"]>>
              => /\ output["reactant"].text = "X + Y"
                 /\ output["product"].text = "Z"

\* C31: whatever roles the components declare, the returned record keeps
\* Reaction_Data_Origin and details_url equal to the metadata, smiles equal to
\* the payload's raw_smiles, and all_chemicals_raw equal to the component list.
FixedFieldsPreserved ==
    fpc \in {"returned", "again"} =>
        /\ output["Reaction_Data_Origin"] = StrValue(metadata.Reaction_Data_Origin)
        /\ output["details_url"] = StrValue(metadata.details_url)
        /\ output["smiles"] = StrValue(parsed_data.raw_smiles)
        /\ output["all_chemicals_raw"] = ListValue(parsed_data.chemicals)

\* The part of C31 the code keeps: the fixed fields are as given when no
\* component's role is the name of one of them.
NoFixedFieldRole ==
    \A i \in 1..Len(parsed_data.chemicals) :
        GroupKey(parsed_data.chemicals[i]) \notin DOMAIN BaseOutput(parsed_data, metadata)
FixedFieldsPreservedOtherRoles ==
    (fpc \in {"returned", "again"} /\ NoFixedFieldRole) =>
        /\ output["Reaction_Data_Origin"] = StrValue(metadata.Reaction_Data_Origin)
        /\ output["details_url"] = StrValue(metadata.details_url)
        /\ output["smiles"] = StrValue(parsed_data.raw_smiles)
        /\ output["all_chemicals_raw"] = ListValue(parsed_data.chemicals)

\* ------------------------------------------ claims on the ORD normaliser

\* The names of the codes 0..10, in code order.
RoleNames ==
    <<"UNSPECIFIED", "REACTANT", "REAGENT", "SOLVENT", "CATALYST", "WORKUP",
      "INTERNAL_STANDARD", "AUTHENTIC_STANDARD", "PRODUCT", "BYPRODUCT", "SIDE_PRODUCT">>

ExpectedRoleName(role_code) ==
    IF role_code.kind = "int" /\ role_code.n >= 0 /\ role_code.n < Len(RoleNames)
    THEN RoleNames[role_code.n + 1]
    ELSE "UNKNOWN_" \o CodeText(role_code)

\* The components of the k-th input of the payload, and of the k-th formatted input.
PayloadComponentsOf(k) == reaction_data.data[1].inputsMap[1][k][2].componentsList
FormattedComponentsOf(k) == formatted[1].inputsMap[k][2].components

\* C11: every component of a formatted record carries the fixed name of its
\* role code when the code is one of 0..10, and 'UNKNOWN_<code>' for every
\* other code, a missing one included; no role code makes the call raise.
RoleCodeMapping ==
    /\ opc \in {"returned", "again"} /\ formatted # None =>
         \A k \in 1..Len(formatted[1].inputsMap) :
             /\ Len(FormattedComponentsOf(k)) = Len(PayloadComponentsOf(k))
             /\ \A c \in 1..Len(PayloadComponentsOf(k)) :
                    FormattedComponentsOf(k)[c].reaction_role =
                        ExpectedRoleName(PayloadComponentsOf(k)[c].reactionRole)
    /\ opc = "raised" =>
         IF reaction_data.data = None THEN TRUE
         ELSE reaction_data.data[1].shape = "mapping"

\* A returned record of two inputs: the component of the first had no role
\* code, the component of the second the code 1.
RoleCodeMappingWitness ==
    /\ opc = "returned"
    /\ formatted # None
    /\ IF Len(formatted[1].inputsMap) < 2 THEN FALSE
       ELSE /\ Len(PayloadComponentsOf(1)) = 1
            /\ PayloadComponentsOf(1)[1].reactionRole = NoCode
            /\ PayloadComponentsOf(2)[1].reactionRole = IntCode(1)
            /\ FormattedComponentsOf(1)[1].reaction_role = "UNKNOWN_None"
            /\ FormattedComponentsOf(2)[1].reaction_role = "REACTANT"

ProgressOnEveryCompletion ==
    bpc = "returned" /\ reaction_ids # <<>> => completed = total

\* What the code does keep: one increment per task that returned a result;
\* a task that raised has not incremented.
ProgressCountsReturnedTasks ==
    bpc = "returned" /\ reaction_ids # <<>> =>
        completed = Cardinality({r \in Range(reaction_ids) : wstep[r] = "ended"})

\* The calls that have returned.
Returned == {t \in Threads : ipc[t] = "returned"}

\* C14: in every interleaving of k concurrent increment calls no update is
\* lost: the values returned so far are distinct and are exactly
\* 1..(number of returned calls), and once all k calls have returned the
\* counter is k.
AtomicIncrement ==
    /\ {returns[t][1] : t \in Returned} = 1..Cardinality(Returned)
    /\ \A t, u \in Returned : returns[t] = returns[u] => t = u
    /\ Cardinality(Returned) = calls => counter = calls

\* All of three calls have returned, and not in thread order.
AtomicIncrementWitness ==
    /\ calls >= 3
    /\ Cardinality(Returned) = calls
    /\ counter = calls
    /\ returns[1] = Some(3)
    /\ returns[3] = Some(1)

\* ------------------------------------------------ claims on the sessions

\* The operation of the owner has returned or raised.
Exited(o) ==
    CASE o = "traversal" -> mode = "dataset" /\ tpc \in {"returned", "raised"}
      [] o = "batch" -> bpc \in {"returned", "raised"}
      [] OTHER -> fut[o] \in {"result", "exception", "collected"}

\* C15: a session that a worker, a batch or the dataset traversal acquired is
\* quit exactly once on every exit path: it is not quit while the operation
\* runs, no owner quits twice or without a session, and once the operation
\* has returned or raised every session it opened has been quit.
SessionRelease ==
    \A o \in Owners :
        /\ opens[o] <= 1
        /\ quits[o] <= opens[o]
        /\ Exited(o) => quits[o] = opens[o]
        /\ ~Exited(o) => quits[o] = 0

\* A batch has returned after one worker raised while it held a session and
\* another returned normally; all three sessions were quit.
SessionReleaseWitness ==
    /\ bpc = "returned"
    /\ opens["batch"] = 1 /\ quits["batch"] = 1
    /\ \E r, q \in Range(reaction_ids) :
        /\ wstep[r] = "raised" /\ opens[r] = 1 /\ quits[r] = 1
        /\ wstep[q] = "ended" /\ opens[q] = 1 /\ quits[q] = 1

\* ------------------------------------- claims on the error containment

\* C16: no failure of an attempt leaves scrape_reaction_data as an exception:
\* the call is retrying or has returned, what it returns is the success or the
\* 'Max retries exceeded' dictionary, and it returns the failure only after
\* every allowed attempt has failed.
FetchErrorContained ==
    /\ rpc # "raised"
    /\ rpc = "returned" =>
         \/ result = SuccessResult(TheReaction)
         \/ result = FailureResult(TheReaction) /\ AlwaysFails

\* Two attempts failed in two different ways and the failure was returned.
FetchErrorContainedWitness ==
    /\ rpc = "returned"
    /\ max_retries = 2
    /\ fetch_plan[1] = "navigation_error"
    /\ fetch_plan[2] = "no_full_record_button"
    /\ result = FailureResult(TheReaction)
    /\ attempts_made = 2

\* C17: an exception raised inside a worker task is caught when its future
\* is collected and recorded as {reaction_id, success False, error text}; the
\* other references of the batch still run, and each has its own result in
\* the returned list.
BatchErrorConversion ==
    /\ \A i \in 1..Len(reactions_data) :
          LET r == reactions_data[i].reaction_id
          IN /\ wstep[r] = "raised" =>
                   reactions_data[i] =
                       [reaction_id |-> r, success |-> FALSE, error |-> "exception text"]
             /\ wstep[r] = "ended" => reactions_data[i] = w_result[r]
    /\ bpc = "returned" /\ reaction_ids # <<>> =>
          /\ \A r \in Range(reaction_ids) : wstep[r] \in {"ended", "raised"}
          /\ {reactions_data[i].reaction_id : i \in 1..Len(reactions_data)}
                 = Range(reaction_ids)
    /\ bpc # "raised" \/ submitted = 0

\* A batch has returned in which the first collected task had raised and a
\* task collected after it succeeded.
BatchErrorConversionWitness ==
    /\ bpc = "returned"
    /\ Len(completion_order) >= 2
    /\ wstep[completion_order[1]] = "raised"
    /\ wstep[completion_order[2]] = "ended"
    /\ w_result[completion_order[2]].success
    /\ \E i \in 1..Len(reactions_data) :
          reactions_data[i] = ExceptionResult(completion_order[1])

\* C18: the list is sorted and summarised only after every submitted
\* reference is resolved: when the batch has returned no task is queued or
\* running and every reference was collected; and no task exists before the
\* traversal of the dataset has returned.
BatchRunsToCompletion ==
    /\ bpc = "returned" =>
          /\ Running = {}
          /\ \A r \in Range(reaction_ids) : fut[r] = "collected"
          /\ Len(reactions_data) = Len(reaction_ids)
          /\ batch_return.total_reactions = Len(reaction_ids)
    /\ bpc \in {"enter", "start"} =>
          \A r \in BatchIds : fut[r] = "none" /\ wstep[r] = "none"

\* A batch of three references on two workers has returned, the last
\* discovered reference having been collected first.
BatchRunsToCompletionWitness ==
    /\ bpc = "returned"
    /\ Len(reaction_ids) = 3
    /\ max_workers = 2
    /\ completion_order[1] = reaction_ids[3]
    /\ batch_return.total_reactions = 3

\* The number of components and products of a formatted record.
ComponentCount(record) ==
    LET inputs == record.inputsMap
        upTo[n \in 0..Len(inputs)] ==
            IF n = 0 THEN 0 ELSE upTo[n - 1] + Len(inputs[n][2].components)
    IN upTo[Len(inputs)] + Len(record.outcomes)

\* The entries of a list that carry a formatted record with a component.
WithComponents(data) ==
    {i \in 1..Len(data) :
        IF "formatted_data" \in DOMAIN data[i]
        THEN ComponentCount(data[i].formatted_data[1]) > 0
        ELSE FALSE}

\* C20: in the output of a batch no entry carries a formatted record without
\* any component or product: a fetched reaction with an empty payload has no
\* formatted_data and is counted as a failure, so successful_scrapes counts
\* exactly the entries whose record has a component.
NoEmptyOrdRecord ==
    bpc = "returned" /\ reaction_ids # <<>> =>
        /\ \A i \in 1..Len(reactions_data) :
              "formatted_data" \in DOMAIN reactions_data[i] =>
                  ComponentCount(reactions_data[i].formatted_data[1]) > 0
        /\ batch_return.successful_scrapes = Cardinality(WithComponents(reactions_data))

\* What the code does keep: every entry with success True carries the
\* formatted record of its payload, empty or not, and is counted.
EveryFetchedReactionFormatted ==
    bpc = "returned" /\ reaction_ids # <<>> =>
        /\ \A i \in 1..Len(reactions_data) :
              reactions_data[i].success <=> "formatted_data" \in DOMAIN reactions_data[i]
        /\ batch_return.successful_scrapes =
              Cardinality({i \in 1..Len(reactions_data) :
                              "formatted_data" \in DOMAIN reactions_data[i]})

\* ------------------------------------ claims on process_reaction_data (CRD)

\* The components of a record.
ChemicalsOf(record) == record["all_chemicals_raw"].items

TextOrEmpty(field) == IF field \in {Absent, EmptyElement} THEN "" ELSE field

\* The record expected for a document: one component per molecule.
ExpectedChemicals(doc) ==
    [i \in 1..Len(doc.molecules) |->
        [name |-> TextOrEmpty(doc.molecules[i].name),
         role |-> Lower(TextOrEmpty(doc.molecules[i].role))]]

\* The loop body has just run for an item whose export was well-formed XML
\* with at least one molecule.
ParsedItemStep ==
    /\ ppc = "items"
    /\ last_item'.outcome.met = "document"
    /\ last_item'.outcome.doc.wellformed
    /\ last_item'.outcome.doc.molecules # <<>>

\* C21: a component whose sub-field is missing or empty gets the empty string
\* for that field and the document is still parsed: the item of a well-formed
\* document with molecules adds a record that has every molecule as a
\* component.
SubFieldDefaults ==
    [][ParsedItemStep =>
          /\ Len(reaction_data_list') = Len(reaction_data_list) + 1
          /\ ChemicalsOf(reaction_data_list'[Len(reaction_data_list')])
                = ExpectedChemicals(last_item'.outcome.doc)]_vars

\* The part of C21 the code keeps: when no sub-element of the document is an
\* element without text, missing sub-fields become the empty string and the
\* record has every molecule.
NoEmptyElement(doc) ==
    \A i \in 1..Len(doc.molecules) :
        doc.molecules[i].name # EmptyElement /\ doc.molecules[i].role # EmptyElement
MissingSubFieldDefaults ==
    [][ParsedItemStep /\ NoEmptyElement(last_item'.outcome.doc) =>
          /\ Len(reaction_data_list') = Len(reaction_data_list) + 1
          /\ ChemicalsOf(reaction_data_list'[Len(reaction_data_list')])
                = ExpectedChemicals(last_item'.outcome.doc)]_vars

\* The loop body has just run for an item whose payload is structurally
\* invalid: the export is not XML, or a component's role element raises.
InvalidItemStep ==
    /\ ppc = "items"
    /\ last_item'.outcome.met = "document"
    /\ ParseRaises(last_item'.outcome.doc)

\* list is the beginning of longer.
IsPrefix(list, longer) ==
    /\ Len(list) <= Len(longer)
    /\ \A i \in 1..Len(list) : longer[i] = list[i]

\* C22: an item with a structurally invalid payload adds no record and does
\* not end the page's loop: the loop goes on with the next item or with the
\* next-page search, and no step ever drops a record already produced.
ItemFailureIsolation ==
    [][/\ InvalidItemStep =>
              /\ reaction_data_list' = reaction_data_list
              /\ ppc' \in {"items", "next"}
              /\ process_return' = None
       /\ IsPrefix(reaction_data_list, reaction_data_list')]_vars

\* The item just processed had an export that is not XML: the record produced
\* before it is still in the list, and the loop is at the page's next item.
ItemFailureIsolationWitness ==
    /\ ppc = "items"
    /\ last_item.outcome = Met("document", NotXml)
    /\ Len(reaction_data_list) = 1
    /\ process_return = None

\* A candidate the search may choose on the page url: displayed, with a
\* target that is another page and has no fragment.
PointsElsewhere(candidate, url) ==
    /\ candidate.displayed
    /\ candidate.href # None
    /\ IF candidate.href = None THEN FALSE
       ELSE candidate.href[1].target # url /\ ~candidate.href[1].fragment

\* C23: the search for the next page never chooses a candidate without
\* target, with a fragment in its target or with the current page as target:
\* the link it chooses is the href of a displayed candidate that points
\* elsewhere, the loop moves to that target and never from a page to itself,
\* and when no candidate points elsewhere the traversal returns.
NonActionableSkipped ==
    [][/\ ppc = "next" =>
              /\ next_link' # None =>
                    /\ \E i \in 1..Len(candidates') :
                          /\ PointsElsewhere(candidates'[i], current_url)
                          /\ candidates'[i].href = next_link'
                          /\ \A j \in 1..(i - 1) :
                                ~PointsElsewhere(candidates'[j], current_url)
                    /\ current_url' = next_link'[1].target
                    /\ ppc' = "load"
              /\ next_link' = None =>
                    /\ current_url' = current_url
                    /\ ppc' = "returned"
              /\ (\A i \in 1..Len(candidates') :
                       ~PointsElsewhere(candidates'[i], current_url))
                    => next_link' = None
       /\ current_url' # current_url => ppc = "next"]_vars

\* The loop is on p2, which it reached from p1 past a displayed link to p1
\* itself: the second candidate was the one chosen.
NonActionableSkippedWitness ==
    /\ ppc = "load"
    /\ current_url = "p2"
    /\ Len(candidates) = 2
    /\ candidates[1] = [displayed |-> TRUE, href |-> Some([target |-> "p1", fragment |-> FALSE])]
    /\ candidates[2].href = next_link
    /\ next_link = Some([target |-> "p2", fragment |-> FALSE])

\* C24: when loading or scanning a page of a listing fails, the traversal
\* stops and returns everything it collected on the pages before: the
\* reaction identifiers met so far, or the records appended so far. A failure
\* before the first page is scanned has nothing collected to lose.
ErrorKeepsCollected ==
    /\ (tpc = "returned" /\ stop_reason = "find_error") =>
          /\ returned = all_ids
          /\ Range(returned) = seen
    /\ (tpc = "returned" /\ stop_reason = "error") => (page = 1 /\ seen = {})
    /\ ppc = "returned" => process_return = Some(reaction_data_list)

\* The scan of the second page of a dataset raised: the identifier collected on
\* the first page is returned.
ErrorKeepsCollectedWitness ==
    /\ tpc = "returned"
    /\ stop_reason = "find_error"
    /\ page = 2
    /\ Len(returned) >= 1

\* The detail page a record was built from.
DetailsUrlOf(record) == record["details_url"].text

\* C28: within one listing an item reference that appears on two pages, or
\* twice on one page, contributes at most one record: no two records of the
\* list come from the same detail page.
ItemsDeduplicated ==
    \A i, j \in 1..Len(reaction_data_list) :
        DetailsUrlOf(reaction_data_list[i]) = DetailsUrlOf(reaction_data_list[j]) => i = j

\* C30: the loop of process_reaction_data eventually stops, also when the
\* 'Next' links of non-empty pages lead back to a page already visited.
ProcessTerminates == <>(ppc = "returned")

\* ------------------------------------------- claims on the batch's results

\* The entry carries a payload: it has the key 'data' and the value is not None.
HasPayload(entry) == IF "data" \in DOMAIN entry THEN entry.data # None ELSE FALSE

\* The entry carries an error reason: it has the key 'error'.
HasError(entry) == "error" \in DOMAIN entry

\* C26: in every result of a finished batch the raw payload is present and
\* non-null if and only if success is true, and an error reason is present if
\* and only if success is false.
FetchResultShape ==
    bpc = "returned" =>
        \A i \in 1..Len(batch_return.reactions) :
            LET entry == batch_return.reactions[i]
            IN /\ HasPayload(entry) <=> entry.success
               /\ HasError(entry) <=> ~entry.success

\* A finished batch with the three kinds of result: a fetched payload, the
\* failure after the last retry, and the entry of a task that raised.
FetchResultShapeWitness ==
    /\ bpc = "returned"
    /\ \E i, j, k \in 1..Len(batch_return.reactions) :
        /\ batch_return.reactions[i].success
        /\ HasPayload(batch_return.reactions[i])
        /\ batch_return.reactions[j] = FailureResult(reaction_ids[j])
        /\ batch_return.reactions[k] = ExceptionResult(reaction_ids[k])

\* The results of the list whose success flag is true.
SuccessesIn(list) == {i \in 1..Len(list) : list[i].success = TRUE}

\* C27: the summary a batch returns has total_reactions equal to the number
\* of discovered references, successful_scrapes equal to the number of its
\* results whose success flag is true, and 0 <= successful_scrapes <=
\* total_reactions.
SummaryConsistency ==
    bpc = "returned" =>
        /\ batch_return.total_reactions = Len(reaction_ids)
        /\ batch_return.successful_scrapes = Cardinality(SuccessesIn(batch_return.reactions))
        /\ 0 <= batch_return.successful_scrapes
        /\ batch_return.successful_scrapes <= batch_return.total_reactions

\* A finished batch of two references, one scraped and one not.
SummaryConsistencyWitness ==
    /\ bpc = "returned"
    /\ Len(reaction_ids) = 2
    /\ batch_return.total_reactions = 2
    /\ batch_return.successful_scrapes = 1

\* ------------------------------ claims on scrape_all_datasets_sequential

\* The entry of a dataset whose processing raised.
IsErrorEntry(entry) == DOMAIN entry = {"dataset_id", "error"}

\* C25: a failure while one dataset is processed does not stop the run: the
\* selected datasets are attempted one after the other in their order, each
\* adds exactly one entry, in that order, and the run ends only after the last
\* of them.
RunContinues ==
    /\ dataset_ids = SelectDatasets(discovered, max_datasets)
    /\ attempted = SubSeq(dataset_ids, 1, dataset_index)
    /\ Len(all_results) = dataset_index
    /\ \A k \in 1..Len(all_results) : all_results[k].dataset_id = dataset_ids[k]
    /\ qpc \in {"returned", "raised"} => dataset_index = Len(dataset_ids)
    /\ qpc = "returned" => run_return = Some(all_results)

\* The run returned two entries: the first dataset raised, the second was
\* processed after it.
RunContinuesWitness ==
    /\ qpc = "returned"
    /\ Len(dataset_ids) = 2
    /\ Len(run_return[1]) = 2
    /\ IsErrorEntry(all_results[1])
    /\ ~IsErrorEntry(all_results[2])
    /\ all_results[2].total_reactions = 2

\* ------------------------------------------------------- claims on main

\* C34: every entry of the results of the sequential run, the error entry
\* of a dataset that raised included, carries the keys main reads, so main
\* never ends with a KeyError after a dataset failed.
FailedDatasetsReported ==
    /\ (mpc # "idle" /\ qpc = "returned") =>
          \A i \in 1..Len(run_return[1]) : MainReads \subseteq DOMAIN run_return[1][i]
    /\ main_error # "KeyError"

\* The part of C34 the code keeps: the entries scrape_single_dataset_parallel
\* returned, the 'No reactions found' ones included, carry the keys, and
\* main gets through a run in which no dataset raised.
ReturnedDatasetsReported ==
    /\ \A i \in 1..Len(all_results) :
          ~IsErrorEntry(all_results[i]) => ~KeyErrorIn(all_results[i])
    /\ main_error = "KeyError" =>
          \E i \in 1..Len(run_return[1]) : IsErrorEntry(run_return[1][i])
    /\ mpc \in {"formatted", "done"} =>
          DOMAIN formatted_results = Range(attempted)

====
